---- MODULE Spec2Model ----
(***************************************************************************)
(* Model of the coauthored codec (core.js, bundled in src/js/viewer.js and *)
(* in its earlier form src/unnamed/part_008).                              *)
(*                                                                         *)
(* A JavaScript string is a sequence of UTF-16 code units.  A code unit is *)
(* written as a one-character TLA+ string when it is printable ASCII and   *)
(* as "U+XXXX" otherwise (also the double quote, backslash, backtick).    *)
(* JavaScript values are tagged records [t |-> tag, x |-> payload].        *)
(***************************************************************************)
EXTENDS Integers, Sequences, FiniteSets, TLC

(***************************************************************************)
(* Bounds of the model.                                                    *)
(***************************************************************************)
\* longest statement, in segments, handed to decode as a raw string
MaxSegs == 2
\* most top-level fields of a data mapping handed to encode
MaxFields == 2
\* longest string tried as a field value
MaxStrLen == 2
\* longest array tried as a field value
MaxArrLen == 2
\* most terms of a rule condition built as a chain of AND / OR
MaxTerms == 3
\* most rules of a configuration
MaxRules == 2
\* most pairs of a list handed to unflatten
MaxPairs == 3
\* most steps of a stepper
MaxSteps == 3
\* most timeouts pending, and most calls of onStepChange followed
MaxCalls == 3
\* most drafts stored
MaxSaves == 2

(***************************************************************************)
(* Code units                                                              *)
(***************************************************************************)
\* the code units 32..126 in order
Printable ==
  << " ", "!", "U+0022", "#", "$", "%", "&", "'", "(", ")", "*", "+", ",", "-", ".", "/",
     "0", "1", "2", "3", "4", "5", "6", "7", "8", "9", ":", ";", "<", "=", ">", "?",
     "@", "A", "B", "C", "D", "E", "F", "G", "H", "I", "J", "K", "L", "M", "N", "O",
     "P", "Q", "R", "S", "T", "U", "V", "W", "X", "Y", "Z", "[", "U+005C", "]", "^", "_",
     "U+0060", "a", "b", "c", "d", "e", "f", "g", "h", "i", "j", "k", "l", "m", "n", "o",
     "p", "q", "r", "s", "t", "u", "v", "w", "x", "y", "z", "{", "|", "}", "~" >>

\* code units outside printable ASCII that the model names: a tab, e-acute,
\* the euro sign, and the surrogate pair of U+1F600
Named ==
  << <<"U+0009", 9>>, <<"U+00E9", 233>>, <<"U+20AC", 8364>>,
     <<"U+D83D", 55357>>, <<"U+DE00", 56832>> >>

PrintableCode == [c \in {Printable[i] : i \in 1..Len(Printable)} |->
                    31 + (CHOOSE i \in 1..Len(Printable) : Printable[i] = c)]

\* the numeric value of a code unit
CodeOf(c) ==
  IF c \in DOMAIN PrintableCode THEN PrintableCode[c]
  ELSE IF \E i \in 1..Len(Named) : Named[i][1] = c
       THEN Named[CHOOSE i \in 1..Len(Named) : Named[i][1] = c][2]
       ELSE 65533

\* the code unit with a numeric value; values the model does not name are
\* collapsed into "U+FFFD"
CharOf(n) ==
  IF n \in 32..126 THEN Printable[n - 31]
  ELSE IF \E i \in 1..Len(Named) : Named[i][2] = n
       THEN Named[CHOOSE i \in 1..Len(Named) : Named[i][2] = n][1]
       ELSE "U+FFFD"

IsDigit(c)  == CodeOf(c) \in 48..57
IsUpper(c)  == CodeOf(c) \in 65..90
IsLower(c)  == CodeOf(c) \in 97..122

\* SAFE_VALUE = /^[a-zA-Z0-9_-]+$/
SAFE_VALUE(str) ==
  /\ Len(str) > 0
  /\ \A i \in 1..Len(str) :
       \/ IsLower(str[i]) \/ IsUpper(str[i]) \/ IsDigit(str[i])
       \/ str[i] = "_" \/ str[i] = "-"

\* /^-?\d+$/
IsIntegerText(str) ==
  LET body == IF Len(str) > 0 /\ str[1] = "-" THEN Tail(str) ELSE str
  IN  /\ Len(body) > 0
      /\ \A i \in 1..Len(body) : IsDigit(body[i])

(***************************************************************************)
(* String helpers of the JavaScript runtime                                *)
(***************************************************************************)
\* String.prototype.indexOf(ch): 1-based here, 0 when absent
IndexOf(str, ch) ==
  IF \E i \in 1..Len(str) : str[i] = ch
  THEN CHOOSE i \in 1..Len(str) : str[i] = ch /\ \A j \in 1..(i - 1) : str[j] # ch
  ELSE 0

\* String.prototype.split(ch): always at least one part
RECURSIVE Split(_, _)
Split(str, ch) ==
  LET i == IndexOf(str, ch)
  IN  IF i = 0 THEN << str >>
      ELSE << SubSeq(str, 1, i - 1) >> \o Split(SubSeq(str, i + 1, Len(str)), ch)

\* Array.prototype.join(ch)
RECURSIVE Join(_, _)
Join(parts, ch) ==
  IF Len(parts) = 0 THEN << >>
  ELSE IF Len(parts) = 1 THEN parts[1]
  ELSE parts[1] \o << ch >> \o Join(Tail(parts), ch)

\* String.prototype.replace(/from/g, to) for a one-character pattern
ReplaceAll(str, from, to) ==
  [i \in 1..Len(str) |-> IF str[i] = from THEN to ELSE str[i]]

\* the decimal digits of a natural number
RECURSIVE Digits(_)
Digits(n) ==
  IF n < 10 THEN << CharOf(48 + n) >>
  ELSE Digits(n \div 10) \o << CharOf(48 + (n % 10)) >>

\* the value of a non-empty run of decimal digits
RECURSIVE DigitsValue(_)
DigitsValue(ds) ==
  IF Len(ds) = 0 THEN 0
  ELSE 10 * DigitsValue(SubSeq(ds, 1, Len(ds) - 1)) + (CodeOf(ds[Len(ds)]) - 48)

(***************************************************************************)
(* base64url: b64Encode and b64Decode with the runtime functions they call *)
(***************************************************************************)
IsHighSurrogate(c) == CodeOf(c) \in 55296..56319
IsLowSurrogate(c)  == CodeOf(c) \in 56320..57343

\* encodeURIComponent throws URIError on an unpaired surrogate
RECURSIVE WellFormed(_)
WellFormed(str) ==
  IF Len(str) = 0 THEN TRUE
  ELSE IF IsHighSurrogate(str[1])
       THEN Len(str) >= 2 /\ IsLowSurrogate(str[2]) /\ WellFormed(SubSeq(str, 3, Len(str)))
       ELSE ~IsLowSurrogate(str[1]) /\ WellFormed(Tail(str))

\* the UTF-8 bytes of one code point
Utf8OfCodePoint(cp) ==
  IF cp < 128 THEN << cp >>
  ELSE IF cp < 2048 THEN << 192 + (cp \div 64), 128 + (cp % 64) >>
  ELSE IF cp < 65536
       THEN << 224 + (cp \div 4096), 128 + ((cp \div 64) % 64), 128 + (cp % 64) >>
       ELSE << 240 + (cp \div 262144), 128 + ((cp \div 4096) % 64),
               128 + ((cp \div 64) % 64), 128 + (cp % 64) >>

\* unescape(encodeURIComponent(str)) of a well-formed string: its UTF-8 bytes
RECURSIVE Utf8Encode(_)
Utf8Encode(str) ==
  IF Len(str) = 0 THEN << >>
  ELSE IF IsHighSurrogate(str[1])
       THEN Utf8OfCodePoint(65536 + (CodeOf(str[1]) - 55296) * 1024
                                  + (CodeOf(str[2]) - 56320))
              \o Utf8Encode(SubSeq(str, 3, Len(str)))
       ELSE Utf8OfCodePoint(CodeOf(str[1])) \o Utf8Encode(Tail(str))

\* the base64 alphabet, by 6-bit value
B64Char(i) ==
  IF i < 26 THEN CharOf(65 + i)
  ELSE IF i < 52 THEN CharOf(97 + (i - 26))
  ELSE IF i < 62 THEN CharOf(48 + (i - 52))
  ELSE IF i = 62 THEN "+" ELSE "/"

\* the 6-bit value of a base64 character, -1 for any other character
B64Index(c) ==
  IF IsUpper(c) THEN CodeOf(c) - 65
  ELSE IF IsLower(c) THEN CodeOf(c) - 97 + 26
  ELSE IF IsDigit(c) THEN CodeOf(c) - 48 + 52
  ELSE IF c = "+" THEN 62
  ELSE IF c = "/" THEN 63
  ELSE -1

\* btoa on a byte string
RECURSIVE Btoa(_)
Btoa(bytes) ==
  IF Len(bytes) = 0 THEN << >>
  ELSE IF Len(bytes) = 1
       THEN << B64Char(bytes[1] \div 4), B64Char((bytes[1] % 4) * 16), "=", "=" >>
  ELSE IF Len(bytes) = 2
       THEN << B64Char(bytes[1] \div 4),
               B64Char((bytes[1] % 4) * 16 + (bytes[2] \div 16)),
               B64Char((bytes[2] % 16) * 4), "=" >>
  ELSE << B64Char(bytes[1] \div 4),
          B64Char((bytes[1] % 4) * 16 + (bytes[2] \div 16)),
          B64Char((bytes[2] % 16) * 4 + (bytes[3] \div 64)),
          B64Char(bytes[3] % 64) >> \o Btoa(SubSeq(bytes, 4, Len(bytes)))

\* .replace(/=+$/, '')
RECURSIVE StripPadding(_)
StripPadding(str) ==
  IF Len(str) > 0 /\ str[Len(str)] = "=" THEN StripPadding(SubSeq(str, 1, Len(str) - 1))
  ELSE str

\* b64Encode: '' when encodeURIComponent throws
b64Encode(str) ==
  IF WellFormed(str)
  THEN StripPadding(ReplaceAll(ReplaceAll(Btoa(Utf8Encode(str)), "+", "-"), "/", "_"))
  ELSE << >>

\* atob, step 1: ASCII whitespace is removed
IsAsciiWhitespace(c) == CodeOf(c) \in {9, 10, 12, 13, 32}

\* atob, step 2: with a length divisible by four, one or two trailing '=' are removed
AtobUnpad(str) ==
  IF Len(str) % 4 = 0 /\ Len(str) > 0 /\ str[Len(str)] = "="
  THEN IF str[Len(str) - 1] = "=" THEN SubSeq(str, 1, Len(str) - 2)
       ELSE SubSeq(str, 1, Len(str) - 1)
  ELSE str

\* atob throws on a length of 1 modulo 4 and on a character outside the alphabet
AtobAccepts(str) ==
  LET data == AtobUnpad(SelectSeq(str, LAMBDA c : ~IsAsciiWhitespace(c)))
  IN  /\ Len(data) % 4 # 1
      /\ \A i \in 1..Len(data) : B64Index(data[i]) >= 0

\* the bytes of a run of base64 characters; the bits of an incomplete byte are dropped
RECURSIVE AtobBytes(_)
AtobBytes(data) ==
  LET v(i) == B64Index(data[i])
  IN  IF Len(data) < 2 THEN << >>
      ELSE IF Len(data) = 2 THEN << v(1) * 4 + (v(2) \div 16) >>
      ELSE IF Len(data) = 3
           THEN << v(1) * 4 + (v(2) \div 16), (v(2) % 16) * 16 + (v(3) \div 4) >>
      ELSE << v(1) * 4 + (v(2) \div 16), (v(2) % 16) * 16 + (v(3) \div 4),
              (v(3) % 4) * 64 + v(4) >> \o AtobBytes(SubSeq(data, 5, Len(data)))

Atob(str) == AtobBytes(AtobUnpad(SelectSeq(str, LAMBDA c : ~IsAsciiWhitespace(c))))

IsContinuation(b) == b \in 128..191

\* the length of the UTF-8 sequence a byte starts, 0 when it starts none
Utf8Length(b) ==
  IF b < 128 THEN 1
  ELSE IF b \in 194..223 THEN 2
  ELSE IF b \in 224..239 THEN 3
  ELSE IF b \in 240..244 THEN 4
  ELSE 0

\* the code point of the UTF-8 sequence of length n at the head of bytes
Utf8CodePoint(bytes, n) ==
  IF n = 1 THEN bytes[1]
  ELSE IF n = 2 THEN (bytes[1] - 192) * 64 + (bytes[2] - 128)
  ELSE IF n = 3 THEN (bytes[1] - 224) * 4096 + (bytes[2] - 128) * 64 + (bytes[3] - 128)
  ELSE (bytes[1] - 240) * 262144 + (bytes[2] - 128) * 4096
         + (bytes[3] - 128) * 64 + (bytes[4] - 128)

\* decodeURIComponent accepts only valid UTF-8: no stray or missing continuation
\* byte, no overlong form, no surrogate, nothing above U+10FFFF
RECURSIVE Utf8Valid(_)
Utf8Valid(bytes) ==
  IF Len(bytes) = 0 THEN TRUE
  ELSE LET n == Utf8Length(bytes[1])
       IN  /\ n > 0
           /\ Len(bytes) >= n
           /\ \A i \in 2..n : IsContinuation(bytes[i])
           /\ LET cp == Utf8CodePoint(bytes, n)
              IN  /\ n = 3 => cp >= 2048 /\ cp \notin 55296..57343
                  /\ n = 4 => cp \in 65536..1114111
           /\ Utf8Valid(SubSeq(bytes, n + 1, Len(bytes)))

\* decodeURIComponent(escape(bytes)) of valid UTF-8: the string's code units
RECURSIVE Utf8Decode(_)
Utf8Decode(bytes) ==
  IF Len(bytes) = 0 THEN << >>
  ELSE LET n  == Utf8Length(bytes[1])
           cp == Utf8CodePoint(bytes, n)
       IN  (IF cp < 65536 THEN << CharOf(cp) >>
            ELSE << CharOf(55296 + ((cp - 65536) \div 1024)),
                    CharOf(56320 + ((cp - 65536) % 1024)) >>)
             \o Utf8Decode(SubSeq(bytes, n + 1, Len(bytes)))

\* b64Decode without the UTF-8 step: the bytes atob yields taken as code units
b64DecodeBytesAsChars(str) ==
  LET padded == ReplaceAll(ReplaceAll(str, "-", "+"), "_", "/")
  IN  IF AtobAccepts(padded)
      THEN [i \in 1..Len(Atob(padded)) |-> CharOf(Atob(padded)[i])]
      ELSE << >>

\* b64Decode: '' when atob or decodeURIComponent throws
b64Decode(str) ==
  LET padded == ReplaceAll(ReplaceAll(str, "-", "+"), "_", "/")
  IN  IF AtobAccepts(padded) /\ Utf8Valid(Atob(padded))
      THEN Utf8Decode(Atob(padded))
      ELSE << >>

(***************************************************************************)
(* JavaScript values                                                       *)
(***************************************************************************)
Str(s)     == [t |-> "str", x |-> s]
\* an integer-valued number
Num(n)     == [t |-> "num", x |-> n]
\* the non-integer number i + f/10, for i >= 0 and f in 1..9
Frac(i, f) == [t |-> "frac", x |-> << i, f >>]
NaN        == [t |-> "nan", x |-> << >>]
Bool(b)    == [t |-> "bool", x |-> b]
Null       == [t |-> "null", x |-> << >>]
Undefined  == [t |-> "undefined", x |-> << >>]
Arr(elems) == [t |-> "arr", x |-> elems]
\* a plain object: its own properties << key, value >> in enumeration order
Obj(props) == [t |-> "obj", x |-> props]
\* a TypeError that reaches the caller
Thrown     == [t |-> "thrown", x |-> << >>]
\* a value of an object this model does not follow
NotModelled == [t |-> "other", x |-> << >>]

IsNumber(v) == v.t \in {"num", "frac", "nan"}

\* String(val) for a number
NumberToString(v) ==
  IF v.t = "nan" THEN << "N", "a", "N" >>
  ELSE IF v.t = "frac" THEN Digits(v.x[1]) \o << "." >> \o Digits(v.x[2])
  ELSE IF v.x < 0 THEN << "-" >> \o Digits(0 - v.x)
  ELSE Digits(v.x)

\* String(val) for what reaches the last line of encodeValue
StringOf(v) ==
  IF v.t = "str" THEN v.x
  ELSE << "[", "o", "b", "j", "e", "c", "t", " ", "O", "b", "j", "e", "c", "t", "]" >>

\* parseInt(str, 10): leading white space, a sign, then the longest run of digits
RECURSIVE DigitPrefix(_)
DigitPrefix(str) ==
  IF Len(str) > 0 /\ IsDigit(str[1]) THEN << str[1] >> \o DigitPrefix(Tail(str))
  ELSE << >>

RECURSIVE TrimStart(_)
TrimStart(str) ==
  IF Len(str) > 0 /\ IsAsciiWhitespace(str[1]) THEN TrimStart(Tail(str)) ELSE str

parseInt(str) ==
  LET s1   == TrimStart(str)
      neg  == Len(s1) > 0 /\ s1[1] = "-"
      s2   == IF Len(s1) > 0 /\ s1[1] \in {"-", "+"} THEN Tail(s1) ELSE s1
      digs == DigitPrefix(s2)
  IN  IF Len(digs) = 0 THEN NaN
      ELSE Num(IF neg THEN 0 - DigitsValue(digs) ELSE DigitsValue(digs))

(***************************************************************************)
(* encodeValue / decodeValue                                               *)
(***************************************************************************)
\* encodeValue writing every string as it is
RECURSIVE encodeValueUnescaped(_)
encodeValueUnescaped(val) ==
  IF val.t \in {"null", "undefined"} \/ val = Str(<< >>) THEN << >>
  ELSE IF val.t = "arr"
       THEN Join([i \in 1..Len(val.x) |-> encodeValueUnescaped(val.x[i])], ",")
  ELSE IF IsNumber(val) THEN NumberToString(val)
  ELSE IF val.t = "bool" THEN (IF val.x THEN << "1" >> ELSE << "0" >>)
  ELSE StringOf(val)

RECURSIVE encodeValue(_)
encodeValue(val) ==
  IF val.t \in {"null", "undefined"} \/ val = Str(<< >>) THEN << >>
  ELSE IF val.t = "arr"
       THEN Join([i \in 1..Len(val.x) |-> encodeValue(val.x[i])], ",")
  ELSE IF IsNumber(val) THEN NumberToString(val)
  ELSE IF val.t = "bool" THEN (IF val.x THEN << "1" >> ELSE << "0" >>)
  ELSE LET str == StringOf(val)
       IN  IF SAFE_VALUE(str) THEN str ELSE << "~" >> \o b64Encode(str)

\* decodeValue testing /^\d+$/, without the sign
RECURSIVE decodeValueUnsigned(_)
decodeValueUnsigned(str) ==
  IF str = << >> THEN Str(<< >>)
  ELSE IF str[1] = "~" THEN Str(b64Decode(Tail(str)))
  ELSE IF IndexOf(str, ",") > 0
       THEN LET parts == Split(str, ",")
            IN  Arr([i \in 1..Len(parts) |-> decodeValueUnsigned(parts[i])])
  ELSE IF Len(str) > 0 /\ \A i \in 1..Len(str) : IsDigit(str[i]) THEN parseInt(str)
  ELSE Str(str)

\* decodeValue splitting at the commas before it looks for the '~' prefix
RECURSIVE decodeValueCommaFirst(_)
decodeValueCommaFirst(str) ==
  IF str = << >> THEN Str(<< >>)
  ELSE IF IndexOf(str, ",") > 0
       THEN LET parts == Split(str, ",")
            IN  Arr([i \in 1..Len(parts) |-> decodeValueCommaFirst(parts[i])])
  ELSE IF str[1] = "~" THEN Str(b64Decode(Tail(str)))
  ELSE IF IsIntegerText(str) THEN parseInt(str)
  ELSE Str(str)

RECURSIVE decodeValue(_)
decodeValue(str) ==
  IF str = << >> THEN Str(<< >>)
  ELSE IF str[1] = "~" THEN Str(b64Decode(Tail(str)))
  ELSE IF IndexOf(str, ",") > 0
       THEN LET parts == Split(str, ",")
            IN  Arr([i \in 1..Len(parts) |-> decodeValue(parts[i])])
  ELSE IF IsIntegerText(str) THEN parseInt(str)
  ELSE Str(str)

(***************************************************************************)
(* Objects: own properties, the prototype chain, the objects all share     *)
(***************************************************************************)
ProtoKey       == << "_", "_", "p", "r", "o", "t", "o", "_", "_" >>
ConstructorKey == << "c", "o", "n", "s", "t", "r", "u", "c", "t", "o", "r" >>
VersionKey     == << "_", "v" >>
OriginKey      == << "_", "o" >>

\* the other members of Object.prototype
ObjectPrototypeMethods ==
  { << "h", "a", "s", "O", "w", "n", "P", "r", "o", "p", "e", "r", "t", "y" >>,
    << "i", "s", "P", "r", "o", "t", "o", "t", "y", "p", "e", "O", "f" >>,
    << "p", "r", "o", "p", "e", "r", "t", "y", "I", "s", "E", "n", "u", "m", "e", "r", "a", "b", "l", "e" >>,
    << "t", "o", "L", "o", "c", "a", "l", "e", "S", "t", "r", "i", "n", "g" >>,
    << "t", "o", "S", "t", "r", "i", "n", "g" >>,
    << "v", "a", "l", "u", "e", "O", "f" >>,
    << "_", "_", "d", "e", "f", "i", "n", "e", "G", "e", "t", "t", "e", "r", "_", "_" >>,
    << "_", "_", "d", "e", "f", "i", "n", "e", "S", "e", "t", "t", "e", "r", "_", "_" >>,
    << "_", "_", "l", "o", "o", "k", "u", "p", "G", "e", "t", "t", "e", "r", "_", "_" >>,
    << "_", "_", "l", "o", "o", "k", "u", "p", "S", "e", "t", "t", "e", "r", "_", "_" >> }

\* the names every plain object inherits
InheritedKeys == {ProtoKey, ConstructorKey} \cup ObjectPrototypeMethods

\* the place of the object under construction in a world; no key is spelled so
ResultId == << "result" >>

\* A world maps ResultId to the own properties of unflatten's result, ProtoKey
\* to the own properties scripts have added to Object.prototype, and every
\* other inherited key to the own properties added to the function it names.
\* The shared objects are kept as a function from the keys of those that were
\* given properties to these properties.
NoSharedProps == << >>
WorldOf(props, shared) ==
  [id \in {ResultId} \cup InheritedKeys |->
     IF id = ResultId THEN props
     ELSE IF id \in DOMAIN shared THEN shared[id] ELSE << >>]
SharedOf(world) == [k \in {id \in InheritedKeys : world[id] # << >>} |-> world[k]]

HasOwn(props, k) == \E i \in 1..Len(props) : props[i][1] = k
OwnGet(props, k) == props[CHOOSE i \in 1..Len(props) : props[i][1] = k][2]

\* an array index: the canonical decimal text of a natural number
IsArrayIndex(k) ==
  /\ Len(k) > 0
  /\ \A i \in 1..Len(k) : IsDigit(k[i])
  /\ Len(k) > 1 => k[1] # "0"

\* where a new own property goes: integer keys ascending first, then the
\* other keys in insertion order
InsertAt(props, k) ==
  IF IsArrayIndex(k)
  THEN Cardinality({i \in 1..Len(props) :
                      IsArrayIndex(props[i][1]) /\ DigitsValue(props[i][1]) < DigitsValue(k)}) + 1
  ELSE Len(props) + 1

\* obj[k] = v on own properties
ObjSet(props, k, v) ==
  IF HasOwn(props, k)
  THEN [i \in 1..Len(props) |-> IF props[i][1] = k THEN << k, v >> ELSE props[i]]
  ELSE LET at == InsertAt(props, k)
       IN  SubSeq(props, 1, at - 1) \o << << k, v >> >> \o SubSeq(props, at, Len(props))

\* the own properties of the object reached from props along path
RECURSIVE TreeGet(_, _)
TreeGet(props, path) ==
  IF Len(path) = 0 THEN props ELSE TreeGet(OwnGet(props, path[1]).x, Tail(path))

\* props after obj[k] = v on the object reached along path
RECURSIVE TreeSet(_, _, _, _)
TreeSet(props, path, k, v) ==
  IF Len(path) = 0 THEN ObjSet(props, k, v)
  ELSE ObjSet(props, path[1], Obj(TreeSet(OwnGet(props, path[1]).x, Tail(path), k, v)))

\* what the variable current holds: a reference to an object (world id and
\* path), a primitive, or an object this model does not follow
Ref(id, path) == [k |-> "ref", s |-> id, p |-> path]
Primitive     == [k |-> "prim", s |-> << >>, p |-> << >>]
NotFollowed   == [k |-> "other", s |-> << >>, p |-> << >>]

IsObjectPrototype(cur) == cur.s = ProtoKey /\ cur.p = << >>
IsSharedFunction(cur)  == cur.s \in InheritedKeys \ {ProtoKey} /\ cur.p = << >>

\* part in current
In(world, cur, part) ==
  \/ HasOwn(TreeGet(world[cur.s], cur.p), part)
  \/ part \in InheritedKeys
  \/ HasOwn(world[ProtoKey], part)

\* a property value as the next current
AsCurrent(v, id, path) ==
  IF v.t = "obj" THEN Ref(id, path)
  ELSE IF v.t = "arr" THEN NotFollowed
  ELSE Primitive

\* current[part], given part in current
Get(world, cur, part) ==
  LET own == TreeGet(world[cur.s], cur.p)
  IN  IF HasOwn(own, part) THEN AsCurrent(OwnGet(own, part), cur.s, cur.p \o << part >>)
      ELSE IF IsSharedFunction(cur) /\ part \in InheritedKeys THEN NotFollowed
      ELSE IF HasOwn(world[ProtoKey], part)
           THEN AsCurrent(OwnGet(world[ProtoKey], part), ProtoKey, << part >>)
      ELSE IF part = ProtoKey /\ IsObjectPrototype(cur) THEN Primitive
      ELSE Ref(part, << >>)

\* current[part] = v on an object: the __proto__ setter ignores a primitive
Assign(world, cur, part, v) ==
  IF part = ProtoKey
  THEN [st |-> IF v.t \in {"obj", "arr"} THEN "other" ELSE "ok", w |-> world]
  ELSE [st |-> "ok", w |-> [world EXCEPT ![cur.s] = TreeSet(@, cur.p, part, v)]]

\* one iteration of unflatten's outer loop from the position current; a
\* property test or an assignment on a primitive throws TypeError (the module
\* is strict code)
RECURSIVE Walk(_, _, _, _)
Walk(world, cur, parts, value) ==
  IF cur.k = "prim" THEN [st |-> "throw", w |-> world]
  ELSE IF cur.k = "other" THEN [st |-> "other", w |-> world]
  ELSE IF Len(parts) = 1 THEN Assign(world, cur, parts[1], value)
  ELSE LET w1 == IF In(world, cur, parts[1]) THEN world
                 ELSE Assign(world, cur, parts[1], Obj(<< >>)).w
       IN  Walk(w1, Get(w1, cur, parts[1]), Tail(parts), value)

\* unflatten(pairs) in a world; st is "ok", "throw" or "other"
RECURSIVE unflattenFrom(_, _)
unflattenFrom(world, pairs) ==
  IF Len(pairs) = 0 THEN [st |-> "ok", w |-> world]
  ELSE LET r == Walk(world, Ref(ResultId, << >>), Split(pairs[1][1], "."), pairs[1][2])
       IN  IF r.st = "ok" THEN unflattenFrom(r.w, Tail(pairs)) ELSE r

unflatten(pairs, shared) == unflattenFrom(WorldOf(<< >>, shared), pairs)

\* flatten(obj, prefix) on the own properties of obj
RECURSIVE flatten(_, _)
flatten(props, prefix) ==
  IF Len(props) = 0 THEN << >>
  ELSE LET key     == props[1][1]
           value   == props[1][2]
           fullKey == IF prefix # << >> THEN prefix \o << "." >> \o key ELSE key
       IN  (IF value.t = "obj" THEN flatten(value.x, fullKey)
            ELSE << << fullKey, value >> >>) \o flatten(Tail(props), prefix)

(***************************************************************************)
(* encode / decode                                                         *)
(***************************************************************************)
\* a ?? b
Coalesce(a, b) == IF a.t \in {"null", "undefined"} THEN b ELSE a

\* encode(data, config); config holds meta.formatVersion and meta.origin
encode(data, config) ==
  LET version == Coalesce(config.formatVersion, Num(1))
      origin  == Coalesce(config.origin, Str(<< "c", "o" >>))
      pairs   == << << << "v" >>, version >>, << << "o" >>, origin >> >>
                   \o SelectSeq(flatten(data.x, << >>),
                                LAMBDA kv : kv[1] # VersionKey /\ kv[1] # OriginKey)
  IN  Join([i \in 1..Len(pairs) |-> pairs[i][1] \o << ":" >> \o encodeValue(pairs[i][2])], ";")

\* the pairs decode's loop collects from the segments
RECURSIVE decodePairs(_)
decodePairs(segments) ==
  IF Len(segments) = 0 THEN << >>
  ELSE LET segment    == segments[1]
           colonIndex == IndexOf(segment, ":")
           key        == SubSeq(segment, 1, colonIndex - 1)
           value      == SubSeq(segment, colonIndex + 1, Len(segment))
       IN  (IF segment = << >> \/ colonIndex = 0 THEN << >>
            ELSE IF key = << "v" >> THEN << << VersionKey, parseInt(value) >> >>
            ELSE IF key = << "o" >> THEN << << OriginKey, Str(value) >> >>
            ELSE << << key, decodeValue(value) >> >>) \o decodePairs(Tail(segments))

\* decode without its try/catch: a TypeError reaches the caller
decodeUncaught(str, shared) ==
  IF str.t # "str" \/ str.x = << >> THEN [r |-> Null, shared |-> shared]
  ELSE LET u == unflatten(decodePairs(Split(str.x, ";")), shared)
       IN  [r |-> IF u.st = "ok" THEN Obj(u.w[ResultId])
                  ELSE IF u.st = "throw" THEN Thrown
                  ELSE NotModelled,
            shared |-> SharedOf(u.w)]

\* decode(str) with the shared objects as it finds them: r is the value
\* returned, shared the shared objects as it leaves them
decode(str, shared) ==
  IF str.t # "str" \/ str.x = << >> THEN [r |-> Null, shared |-> shared]
  ELSE LET u == unflatten(decodePairs(Split(str.x, ";")), shared)
       IN  [r |-> IF u.st = "ok" THEN Obj(u.w[ResultId])
                  ELSE IF u.st = "throw" THEN Null
                  ELSE NotModelled,
            shared |-> SharedOf(u.w)]

(***************************************************************************)
(* The rule engine (rules.js): tokenize, parse, evaluate, compile          *)
(***************************************************************************)
\* a token; value is undefined for the token types that carry none
TOKEN(type, value) == [type |-> type, value |-> value]

\* /\s/ on the code units the model names
IsWhiteSpace(c) == IsAsciiWhitespace(c) \/ c \in {"U+000B", "U+00A0", "U+FEFF"}
IsNumberChar(c) == IsDigit(c) \/ c = "."
IsIdStart(c)    == IsLower(c) \/ IsUpper(c) \/ c = "_"
IsIdChar(c)     == IsIdStart(c) \/ IsDigit(c)

\* the run of [\d.] and of [a-zA-Z0-9_] starting at position i
RECURSIVE NumberRun(_, _)
NumberRun(expr, i) ==
  IF i <= Len(expr) /\ IsNumberChar(expr[i]) THEN << expr[i] >> \o NumberRun(expr, i + 1)
  ELSE << >>

RECURSIVE IdentifierRun(_, _)
IdentifierRun(expr, i) ==
  IF i <= Len(expr) /\ IsIdChar(expr[i]) THEN << expr[i] >> \o IdentifierRun(expr, i + 1)
  ELSE << >>

\* id.toUpperCase() on [a-zA-Z0-9_]
toUpperCase(id) ==
  [k \in 1..Len(id) |-> IF IsLower(id[k]) THEN CharOf(CodeOf(id[k]) - 32) ELSE id[k]]

RECURSIVE StripTrailingZeros(_)
StripTrailingZeros(ds) ==
  IF Len(ds) > 0 /\ ds[Len(ds)] = "0" THEN StripTrailingZeros(SubSeq(ds, 1, Len(ds) - 1))
  ELSE ds

\* parseFloat on a run of [\d.]: the digits, then one '.' and its digits;
\* a fraction is kept as Frac(i, f) when f has no leading zero
parseFloat(num) ==
  LET int  == DigitPrefix(num)
      rest == SubSeq(num, Len(int) + 1, Len(num))
      frac == IF Len(rest) > 0 /\ rest[1] = "." THEN DigitPrefix(Tail(rest)) ELSE << >>
      sig  == StripTrailingZeros(frac)
  IN  IF Len(int) = 0 THEN NaN
      ELSE IF sig = << >> THEN Num(DigitsValue(int))
      ELSE IF sig[1] = "0" THEN NotModelled
      ELSE Frac(DigitsValue(int), DigitsValue(sig))

\* tokenize comparing the keywords AND, OR, NOT as they are spelled
RECURSIVE tokenizeFromCaseSensitive(_, _)
tokenizeFromCaseSensitive(expr, i) ==
  IF i > Len(expr) THEN << TOKEN("EOF", Undefined) >>
  ELSE
    LET c   == expr[i]
        two == SubSeq(expr, i, IF i < Len(expr) THEN i + 1 ELSE i)
    IN  IF IsWhiteSpace(c) THEN tokenizeFromCaseSensitive(expr, i + 1)
        ELSE IF two \in { << ">", "=" >>, << "<", "=" >>, << "=", "=" >>, << "!", "=" >> }
             THEN << TOKEN("COMPARATOR", two) >> \o tokenizeFromCaseSensitive(expr, i + 2)
        ELSE IF two = << "&", "&" >>
             THEN << TOKEN("AND", Undefined) >> \o tokenizeFromCaseSensitive(expr, i + 2)
        ELSE IF two = << "|", "|" >>
             THEN << TOKEN("OR", Undefined) >> \o tokenizeFromCaseSensitive(expr, i + 2)
        ELSE IF c \in {">", "<"}
             THEN << TOKEN("COMPARATOR", << c >>) >> \o tokenizeFromCaseSensitive(expr, i + 1)
        ELSE IF c = "(" THEN << TOKEN("LPAREN", Undefined) >> \o tokenizeFromCaseSensitive(expr, i + 1)
        ELSE IF c = ")" THEN << TOKEN("RPAREN", Undefined) >> \o tokenizeFromCaseSensitive(expr, i + 1)
        ELSE IF c = "!" THEN << TOKEN("NOT", Undefined) >> \o tokenizeFromCaseSensitive(expr, i + 1)
        ELSE IF IsDigit(c)
             THEN << TOKEN("NUMBER", parseFloat(NumberRun(expr, i))) >>
                    \o tokenizeFromCaseSensitive(expr, i + Len(NumberRun(expr, i)))
        ELSE IF IsIdStart(c)
             THEN LET id    == IdentifierRun(expr, i)
                      token == IF id = << "A", "N", "D" >> THEN TOKEN("AND", Undefined)
                               ELSE IF id = << "O", "R" >> THEN TOKEN("OR", Undefined)
                               ELSE IF id = << "N", "O", "T" >> THEN TOKEN("NOT", Undefined)
                               ELSE IF id = << "t", "r", "u", "e" >> THEN TOKEN("BOOLEAN", Bool(TRUE))
                               ELSE IF id = << "f", "a", "l", "s", "e" >> THEN TOKEN("BOOLEAN", Bool(FALSE))
                               ELSE TOKEN("IDENTIFIER", id)
                  IN  << token >> \o tokenizeFromCaseSensitive(expr, i + Len(id))
        ELSE << TOKEN("Error", Undefined) >>

\* the tokens from position i on; an unexpected character ends the list with
\* a token of type "Error" in place of EOF
RECURSIVE tokenizeFrom(_, _)
tokenizeFrom(expr, i) ==
  IF i > Len(expr) THEN << TOKEN("EOF", Undefined) >>
  ELSE
    LET c   == expr[i]
        two == SubSeq(expr, i, IF i < Len(expr) THEN i + 1 ELSE i)
    IN  IF IsWhiteSpace(c) THEN tokenizeFrom(expr, i + 1)
        ELSE IF two \in { << ">", "=" >>, << "<", "=" >>, << "=", "=" >>, << "!", "=" >> }
             THEN << TOKEN("COMPARATOR", two) >> \o tokenizeFrom(expr, i + 2)
        ELSE IF two = << "&", "&" >> THEN << TOKEN("AND", Undefined) >> \o tokenizeFrom(expr, i + 2)
        ELSE IF two = << "|", "|" >> THEN << TOKEN("OR", Undefined) >> \o tokenizeFrom(expr, i + 2)
        ELSE IF c \in {">", "<"} THEN << TOKEN("COMPARATOR", << c >>) >> \o tokenizeFrom(expr, i + 1)
        ELSE IF c = "(" THEN << TOKEN("LPAREN", Undefined) >> \o tokenizeFrom(expr, i + 1)
        ELSE IF c = ")" THEN << TOKEN("RPAREN", Undefined) >> \o tokenizeFrom(expr, i + 1)
        ELSE IF c = "!" THEN << TOKEN("NOT", Undefined) >> \o tokenizeFrom(expr, i + 1)
        ELSE IF IsDigit(c)
             THEN LET num == NumberRun(expr, i)
                  IN  << TOKEN("NUMBER", parseFloat(num)) >> \o tokenizeFrom(expr, i + Len(num))
        ELSE IF IsIdStart(c)
             THEN LET id    == IdentifierRun(expr, i)
                      upper == toUpperCase(id)
                      token == IF upper = << "A", "N", "D" >> THEN TOKEN("AND", Undefined)
                               ELSE IF upper = << "O", "R" >> THEN TOKEN("OR", Undefined)
                               ELSE IF upper = << "N", "O", "T" >> THEN TOKEN("NOT", Undefined)
                               ELSE IF id = << "t", "r", "u", "e" >> THEN TOKEN("BOOLEAN", Bool(TRUE))
                               ELSE IF id = << "f", "a", "l", "s", "e" >> THEN TOKEN("BOOLEAN", Bool(FALSE))
                               ELSE TOKEN("IDENTIFIER", id)
                  IN  << token >> \o tokenizeFrom(expr, i + Len(id))
        ELSE << TOKEN("Error", Undefined) >>

\* tokenize(expr): st is "ok" with the tokens, or "throw"
tokenize(expr) ==
  LET tokens == tokenizeFrom(expr, 1)
  IN  IF tokens[Len(tokens)].type = "EOF" THEN [st |-> "ok", tokens |-> tokens]
      ELSE [st |-> "throw", tokens |-> << >>]

\* what a parsing function hands back: the node and the position after it,
\* or the Error it threw
Parsed(ast, pos) == [st |-> "ok", ast |-> ast, pos |-> pos]
ParseError       == [st |-> "throw", ast |-> Undefined, pos |-> 0]

RECURSIVE parseExpr(_, _)
RECURSIVE parseTerm(_, _)
RECURSIVE parseFactor(_, _)

\* the loop of parseExpr taking the operator before its right operand is
\* parsed whole: a chain folds to the right
RECURSIVE parseExprLoopRightFold(_, _, _)
parseExprLoopRightFold(tokens, left, pos) ==
  IF tokens[pos].type \in {"AND", "OR"}
  THEN LET right == parseExpr(tokens, pos + 1)
       IN  IF right.st # "ok" THEN right
           ELSE Parsed([type |-> tokens[pos].type, left |-> left, right |-> right.ast], right.pos)
  ELSE Parsed(left, pos)

\* the while loop of parseExpr, entered with left parsed and current at pos
RECURSIVE parseExprLoop(_, _, _)
parseExprLoop(tokens, left, pos) ==
  IF tokens[pos].type \in {"AND", "OR"}
  THEN LET right == parseTerm(tokens, pos + 1)
       IN  IF right.st # "ok" THEN right
           ELSE parseExprLoop(tokens,
                              [type |-> tokens[pos].type, left |-> left, right |-> right.ast],
                              right.pos)
  ELSE Parsed(left, pos)

parseExpr(tokens, pos) ==
  LET left == parseTerm(tokens, pos)
  IN  IF left.st # "ok" THEN left ELSE parseExprLoop(tokens, left.ast, left.pos)

parseTerm(tokens, pos) ==
  IF tokens[pos].type = "NOT"
  THEN LET operand == parseFactor(tokens, pos + 1)
       IN  IF operand.st # "ok" THEN operand
           ELSE Parsed([type |-> "NOT", operand |-> operand.ast], operand.pos)
  ELSE parseFactor(tokens, pos)

parseFactor(tokens, pos) ==
  LET current == tokens[pos].type
  IN  IF current = "LPAREN"
      THEN LET expr == parseExpr(tokens, pos + 1)
           IN  IF expr.st # "ok" THEN expr
               ELSE IF tokens[expr.pos].type # "RPAREN" THEN ParseError
               ELSE Parsed(expr.ast, expr.pos + 1)
      ELSE IF current = "BOOLEAN"
      THEN Parsed([type |-> "LITERAL", value |-> tokens[pos].value], pos + 1)
      ELSE IF current = "IDENTIFIER"
      THEN LET id == tokens[pos].value
           IN  IF tokens[pos + 1].type = "COMPARATOR"
               THEN LET op   == tokens[pos + 1].value
                        next == tokens[pos + 2]
                    IN  IF next.type = "NUMBER"
                        THEN Parsed([type |-> "COMPARE", left |-> id, op |-> op,
                                     right |-> next.value], pos + 3)
                        ELSE IF next.type = "IDENTIFIER"
                        THEN Parsed([type |-> "COMPARE", left |-> id, op |-> op,
                                     right |-> [type |-> "VAR", name |-> next.value]], pos + 3)
                        ELSE ParseError
               ELSE Parsed([type |-> "VAR", name |-> id], pos + 1)
      ELSE ParseError

\* parse(tokens): parseExpr from the first token; the position reached is
\* not looked at
parse(tokens) == parseExpr(tokens, 1)

\* a member every plain object inherits: a function, or for __proto__ the
\* prototype object itself
Inherited(name) == [t |-> "builtin", x |-> name]

\* ctx[name]: an own property, a property scripts added to Object.prototype,
\* an inherited member, or undefined
Lookup(ctx, name, env) ==
  IF HasOwn(ctx.x, name) THEN OwnGet(ctx.x, name)
  ELSE IF ProtoKey \in DOMAIN env /\ HasOwn(env[ProtoKey], name) THEN OwnGet(env[ProtoKey], name)
  ELSE IF name \in InheritedKeys THEN Inherited(name)
  ELSE Undefined

\* ToBoolean
Truthy(v) ==
  ~(v.t \in {"null", "undefined", "nan"} \/ v = Bool(FALSE) \/ v = Num(0) \/ v = Str(<< >>))

\* ToNumber of a string: white space trimmed, '' is 0, a decimal integer is
\* its value, a word of letters is NaN
TrimmedToNumber(s) ==
  IF s = << >> THEN Num(0)
  ELSE IF IsIntegerText(s) THEN parseInt(s)
  ELSE IF (\A i \in 1..Len(s) : IsLower(s[i]) \/ IsUpper(s[i]))
            /\ s # << "I", "n", "f", "i", "n", "i", "t", "y" >> THEN NaN
  ELSE NotModelled

StringToNumber(str) == TrimmedToNumber(TrimStart(str))

\* ToNumber; a function or a plain object becomes a text that is no number
ToNumber(v) ==
  IF v.t \in {"num", "frac", "nan"} THEN v
  ELSE IF v.t = "bool" THEN (IF v.x THEN Num(1) ELSE Num(0))
  ELSE IF v.t = "null" THEN Num(0)
  ELSE IF v.t = "undefined" THEN NaN
  ELSE IF v.t = "str" THEN StringToNumber(v.x)
  ELSE IF v.t \in {"builtin", "obj"} THEN NaN
  ELSE NotModelled

\* a number in thousandths
Thousandths(v) ==
  IF v.t = "num" THEN v.x * 1000
  ELSE LET f == Digits(v.x[2])
       IN  v.x[1] * 1000 + (IF Len(f) = 1 THEN v.x[2] * 100
                            ELSE IF Len(f) = 2 THEN v.x[2] * 10 ELSE v.x[2])

RECURSIVE StringLess(_, _)
StringLess(a, b) ==
  IF Len(b) = 0 THEN FALSE
  ELSE IF Len(a) = 0 THEN TRUE
  ELSE IF a[1] # b[1] THEN CodeOf(a[1]) < CodeOf(b[1])
  ELSE StringLess(Tail(a), Tail(b))

\* a < b as the relational operators compute it: "true", "false", "undefined"
\* (a NaN operand) or "other" (operands this model does not follow)
NumberLess(x, y) ==
  IF x.t = "other" \/ y.t = "other" THEN "other"
  ELSE IF x.t = "nan" \/ y.t = "nan" THEN "undefined"
  ELSE IF x.t = "frac" /\ Len(Digits(x.x[2])) > 3 THEN "other"
  ELSE IF y.t = "frac" /\ Len(Digits(y.x[2])) > 3 THEN "other"
  ELSE IF Thousandths(x) < Thousandths(y) THEN "true" ELSE "false"

LessThan(a, b) ==
  IF a.t = "str" /\ b.t = "str" THEN (IF StringLess(a.x, b.x) THEN "true" ELSE "false")
  ELSE IF (a.t \in {"builtin", "obj", "arr", "other"} /\ b.t \in {"str", "builtin", "obj", "arr", "other"})
            \/ (b.t \in {"builtin", "obj", "arr", "other"} /\ a.t \in {"str", "builtin", "obj", "arr", "other"})
       THEN "other"
  ELSE NumberLess(ToNumber(a), ToNumber(b))

\* a === b
StrictEquals(a, b) ==
  IF a.t \in {"obj", "arr", "other"} \/ b.t \in {"obj", "arr", "other"} THEN NotModelled
  ELSE IF a.t = "nan" \/ b.t = "nan" THEN Bool(FALSE)
  ELSE IF a.t # b.t THEN Bool(FALSE)
  ELSE Bool(a = b)

\* left op right for the six comparators
Relation(less, wanted) == IF less = "other" THEN NotModelled ELSE Bool(less = wanted)

Negated(eq) == IF eq.t = "other" THEN NotModelled ELSE Bool(~eq.x)

Compare(op, left, right) ==
  IF op = << ">", "=" >> THEN Relation(LessThan(left, right), "false")
  ELSE IF op = << "<", "=" >> THEN Relation(LessThan(right, left), "false")
  ELSE IF op = << ">" >> THEN Relation(LessThan(right, left), "true")
  ELSE IF op = << "<" >> THEN Relation(LessThan(left, right), "true")
  ELSE IF op = << "=", "=" >> THEN StrictEquals(left, right)
  ELSE IF op = << "!", "=" >> THEN Negated(StrictEquals(left, right))
  ELSE Bool(FALSE)

\* evaluate(ast, ctx) where env holds the properties scripts added to the
\* objects every mapping inherits from
RECURSIVE evaluate(_, _, _)
evaluate(ast, ctx, env) ==
  IF ast.type = "LITERAL" THEN ast.value
  ELSE IF ast.type = "VAR" THEN Coalesce(Lookup(ctx, ast.name, env), Bool(FALSE))
  ELSE IF ast.type = "COMPARE"
       THEN LET left  == Coalesce(Lookup(ctx, ast.left, env), Num(0))
                right == IF "type" \in DOMAIN ast.right
                         THEN Coalesce(Lookup(ctx, ast.right.name, env), Num(0))
                         ELSE ast.right
            IN  Compare(ast.op, left, right)
  ELSE IF ast.type = "AND"
       THEN LET left == evaluate(ast.left, ctx, env)
            IN  IF left.t = "other" THEN NotModelled
                ELSE IF Truthy(left) THEN evaluate(ast.right, ctx, env) ELSE left
  ELSE IF ast.type = "OR"
       THEN LET left == evaluate(ast.left, ctx, env)
            IN  IF left.t = "other" THEN NotModelled
                ELSE IF Truthy(left) THEN left ELSE evaluate(ast.right, ctx, env)
  ELSE IF ast.type = "NOT"
       THEN LET operand == evaluate(ast.operand, ctx, env)
            IN  IF operand.t = "other" THEN NotModelled ELSE Bool(~Truthy(operand))
  ELSE Bool(FALSE)

\* the function compile returns, closed over its AST
Evaluator(ast) == [t |-> "evaluator", x |-> ast]

\* compile(expr): the evaluator, or the Error tokenize or parse threw; a number,
\* a boolean or a plain object has no length and tokenizes to EOF alone
EvaluatorOf(parsed) == IF parsed.st = "throw" THEN Thrown ELSE Evaluator(parsed.ast)

ParseScanned(scanned) ==
  IF scanned.st = "throw" THEN Thrown ELSE EvaluatorOf(parse(scanned.tokens))

compile(expr) ==
  IF expr.t \in {"null", "undefined"} THEN Thrown
  ELSE IF expr.t \in {"arr", "other"} THEN NotModelled
  ELSE IF expr.t = "str" THEN ParseScanned(tokenize(expr.x))
  ELSE ParseScanned([st |-> "ok", tokens |-> << TOKEN("EOF", Undefined) >>])

(***************************************************************************)
(* The configuration (config.js): validateConfig, loadConfig,              *)
(* computeContext, assess                                                  *)
(***************************************************************************)
\* A configuration as JSON.parse returns it is kept as a record: absent (the
\* names among meta, categories, fields, rules, scoring the file does not
\* hold), meta (a record of values), categories (the set of category names),
\* fields (a sequence of << key, field >>), computed (scoring.computed, a
\* sequence of << name, computed >>), rules (a sequence of rules).  A field
\* without category has category "", one without score has score undefined.
REQUIRED_KEYS == << "meta", "categories", "fields", "rules" >>
REQUIRED_META == << "formatVersion", "schemaVersion", "origin" >>
VALID_FIELD_TYPES == {"enum", "flags", "text", "date"}
VALID_COMPUTED_TYPES == {"max", "lookup", "includes_any"}

\* the Error a function threw, with the beginning of its message
Failure(message) == [t |-> "error", x |-> message]

\* the first Error of the loop over config.fields, or "ok"
RECURSIVE FieldsError(_, _)
FieldsError(fields, categories) ==
  IF Len(fields) = 0 THEN "ok"
  ELSE LET field == fields[1][2]
       IN  IF field.type \notin VALID_FIELD_TYPES THEN "Invalid field type"
           ELSE IF field.type \in {"enum", "flags"} /\ ~field.values THEN "Field requires values"
           ELSE IF field.category # "" /\ field.category \notin categories
                THEN "Field references unknown category"
           ELSE FieldsError(Tail(fields), categories)

\* the first Error of the loop over config.rules, or "ok"
RECURSIVE RulesError(_)
RulesError(rules) ==
  IF Len(rules) = 0 THEN "ok"
  ELSE IF ~Truthy(rules[1].condition) THEN "Rule missing condition"
  ELSE IF compile(rules[1].condition).t = "thrown" THEN "Invalid rule condition"
  ELSE RulesError(Tail(rules))

\* validateConfig with the loop over config.rules left out
validateConfigWithoutRules(config) ==
  IF \E i \in 1..Len(REQUIRED_KEYS) : REQUIRED_KEYS[i] \in config.absent
  THEN "Missing required config key"
  ELSE IF \E i \in 1..Len(REQUIRED_META) : ~Truthy(config.meta[REQUIRED_META[i]])
  THEN "Missing required meta key"
  ELSE IF FieldsError(config.fields, config.categories) # "ok"
  THEN FieldsError(config.fields, config.categories)
  ELSE IF "scoring" \notin config.absent
            /\ \E i \in 1..Len(config.computed) :
                 config.computed[i][2].type \notin VALID_COMPUTED_TYPES
  THEN "Invalid computed type"
  ELSE "ok"

\* validateConfig(config): "ok" when it returns true, or the message of the
\* Error it throws
validateConfig(config) ==
  IF \E i \in 1..Len(REQUIRED_KEYS) : REQUIRED_KEYS[i] \in config.absent
  THEN "Missing required config key"
  ELSE IF \E i \in 1..Len(REQUIRED_META) : ~Truthy(config.meta[REQUIRED_META[i]])
  THEN "Missing required meta key"
  ELSE IF FieldsError(config.fields, config.categories) # "ok"
  THEN FieldsError(config.fields, config.categories)
  ELSE IF "scoring" \notin config.absent
            /\ \E i \in 1..Len(config.computed) :
                 config.computed[i][2].type \notin VALID_COMPUTED_TYPES
  THEN "Invalid computed type"
  ELSE RulesError(config.rules)

\* { ...rule, evaluator: compile(rule.condition) }
CompiledRule(r) ==
  [id |-> r.id, condition |-> r.condition, level |-> r.level, color |-> r.color,
   label |-> r.label, evaluator |-> compile(r.condition)]

\* the configuration with _compiledRules, or the Error of the first
\* condition compile rejects
Loaded(config, compiled) ==
  IF \E i \in 1..Len(compiled) : compiled[i].evaluator.t # "evaluator"
  THEN Failure("compile")
  ELSE [t |-> "config", x |-> config, compiledRules |-> compiled]

WithCompiledRules(config) ==
  Loaded(config, [i \in 1..Len(config.rules) |-> CompiledRule(config.rules[i])])

\* the Error validateConfig threw, or the configuration with its compiled rules
Validated(result, config) ==
  IF result # "ok" THEN Failure(result) ELSE WithCompiledRules(config)

\* loadConfig(url): what the promise settles with, given how the fetch ended
loadConfig(fetched, config) ==
  IF fetched = "networkError" THEN Failure("fetch")
  ELSE IF fetched = "status404" THEN Failure("Failed to load config")
  ELSE IF fetched = "invalidJSON" THEN Failure("JSON")
  ELSE Validated(validateConfig(config), config)

\* loadConfigSync(path) of cli.js, given how reading the file ended
loadConfigSync(read, config) ==
  IF read = "unreadable" THEN Failure("readFileSync")
  ELSE IF read = "invalidJSON" THEN Failure("JSON")
  ELSE Validated(validateConfig(config), config)

\* o?.[k]; a string, a number or an array has no own property of the names
\* the configurations use
OptionalGet(o, k, env) ==
  IF o.t \in {"null", "undefined"} THEN Undefined
  ELSE IF o.t = "obj" THEN Lookup(o, k, env)
  ELSE IF o.t \in {"other", "builtin"} THEN NotModelled
  ELSE IF k = << "l", "e", "n", "g", "t", "h" >> \/ IsArrayIndex(k) \/ k \in InheritedKeys
       THEN NotModelled
  ELSE IF ProtoKey \in DOMAIN env /\ HasOwn(env[ProtoKey], k) THEN OwnGet(env[ProtoKey], k)
  ELSE Undefined

RECURSIVE getNestedFrom(_, _, _)
getNestedFrom(o, parts, env) ==
  IF Len(parts) = 0 THEN o
  ELSE getNestedFrom(OptionalGet(o, parts[1], env), Tail(parts), env)

\* getNestedValue(obj, path)
getNestedValue(obj, path, env) == getNestedFrom(obj, Split(path, "."), env)

\* config.fields[fieldKey]
ConfigField(config, fieldKey) ==
  IF \E i \in 1..Len(config.fields) : config.fields[i][1] = fieldKey
  THEN config.fields[CHOOSE i \in 1..Len(config.fields) : config.fields[i][1] = fieldKey][2]
  ELSE Undefined

\* the property key a value is turned into
RECURSIVE ToPropertyKey(_)
ToPropertyKey(v) ==
  IF v.t = "str" THEN v.x
  ELSE IF IsNumber(v) THEN NumberToString(v)
  ELSE IF v.t = "bool" THEN (IF v.x THEN << "t", "r", "u", "e" >> ELSE << "f", "a", "l", "s", "e" >>)
  ELSE IF v.t = "arr"
       THEN Join([i \in 1..Len(v.x) |->
                    IF v.x[i].t \in {"null", "undefined"} THEN << >> ELSE ToPropertyKey(v.x[i])], ",")
  ELSE StringOf(v)

\* getScore(data, fieldKey, config)
getScore(data, fieldKey, config, env) ==
  LET value == getNestedValue(data, fieldKey, env)
      field == ConfigField(config, fieldKey)
  IN  IF field = Undefined THEN Num(0)
      ELSE IF field.score = Undefined THEN Num(0)
      ELSE IF value.t \in {"other", "builtin"} THEN NotModelled
      ELSE IF ~Truthy(value) THEN Num(0)
      ELSE Coalesce(Lookup(field.score, ToPropertyKey(value), env), Num(0))

\* Math.max of one or more values
RECURSIVE MathMax(_)
MathMax(values) ==
  IF Len(values) = 0 \/ \E i \in 1..Len(values) : values[i].t \in {"other", "frac"} THEN NotModelled
  ELSE IF \E i \in 1..Len(values) : ToNumber(values[i]).t # "num" THEN NaN
  ELSE IF Len(values) = 1 THEN ToNumber(values[1])
  ELSE LET rest == MathMax(Tail(values))
           head == ToNumber(values[1])
       IN  IF head.x >= rest.x THEN head ELSE rest

\* the value of one entry of scoring.computed
ComputedValue(computed, data, config, env) ==
  IF computed.type = "max"
  THEN MathMax([i \in 1..Len(computed.fields) |-> getScore(data, computed.fields[i], config, env)])
  ELSE IF computed.type = "lookup"
  THEN getScore(data, computed.field, config, env)
  ELSE LET value == getNestedValue(data, computed.field, env)
           arr   == IF value.t = "arr" THEN value.x
                    ELSE IF Truthy(value) THEN << value >> ELSE << >>
       IN  IF value.t \in {"other", "builtin"} THEN NotModelled
           ELSE Bool(\E i \in 1..Len(computed.values) :
                       \E j \in 1..Len(arr) : arr[j] = computed.values[i])

RECURSIVE computeContextFrom(_, _, _, _, _)
computeContextFrom(props, entries, data, config, env) ==
  IF Len(entries) = 0 THEN props
  ELSE computeContextFrom(ObjSet(props, entries[1][1],
                                 ComputedValue(entries[1][2], data, config, env)),
                          Tail(entries), data, config, env)

\* computeContext(data, config)
computeContext(data, config, env) ==
  IF "scoring" \in config.absent THEN Obj(<< >>)
  ELSE Obj(computeContextFrom(<< >>, config.computed, data, config, env))

\* what assess returns
Outcome(level, color, label) == [level |-> level, color |-> color, label |-> label]
DefaultOutcome == Outcome("info", "6b7280", "Documented")
OutcomeNotModelled == Outcome("other", "other", "other")

\* the loop of assess returning the outcome of the last rule that matches
RECURSIVE assessLoopLastMatch(_, _, _)
assessLoopLastMatch(rules, context, env) ==
  IF Len(rules) = 0 THEN DefaultOutcome
  ELSE LET rule0 == rules[Len(rules)]
       IN  IF Truthy(evaluate(rule0.evaluator.x, context, env))
           THEN Outcome(rule0.level, rule0.color, rule0.label)
           ELSE assessLoopLastMatch(SubSeq(rules, 1, Len(rules) - 1), context, env)

\* the loop of assess over config._compiledRules
RECURSIVE assessLoop(_, _, _)
assessLoop(rules, context, env) ==
  IF Len(rules) = 0 THEN DefaultOutcome
  ELSE IF evaluate(rules[1].evaluator.x, context, env).t = "other" THEN OutcomeNotModelled
  ELSE IF Truthy(evaluate(rules[1].evaluator.x, context, env))
  THEN Outcome(rules[1].level, rules[1].color, rules[1].label)
  ELSE assessLoop(Tail(rules), context, env)

\* assess(data, config) on a loaded configuration
AssessIn(context, cfg, env) ==
  IF \E i \in 1..Len(context.x) : context.x[i][2].t = "other" THEN OutcomeNotModelled
  ELSE assessLoop(cfg.compiledRules, context, env)

assess(input, cfg, env) ==
  IF input.t = "other" THEN OutcomeNotModelled
  ELSE IF ~Truthy(input) THEN DefaultOutcome
  ELSE AssessIn(computeContext(input, cfg.x, env), cfg, env)

(***************************************************************************)
(* The page (app.js): parseUrl, route, init                                *)
(***************************************************************************)
\* parseUrl(urlOrHash) on a string
parseUrl(urlOrHash) ==
  LET afterHash == IF IndexOf(urlOrHash, "#") > 0 THEN Split(urlOrHash, "#")[2] ELSE urlOrHash
      hash      == IF Len(afterHash) > 0 /\ afterHash[1] = "/" THEN Tail(afterHash) ELSE afterHash
  IN  IF hash = << >> THEN Null ELSE Str(hash)

\* the page before init: #app shows nothing, no listener, route not called,
\* no entry pushed on the history
PageAtStart ==
  [app |-> "empty", hashchange |-> FALSE, keydown |-> FALSE, routed |-> FALSE, pushed |-> FALSE]

\* what route leaves once decode returned d: the viewer for a truthy result,
\* else the creator
Routed(pg, d) ==
  [page   |-> [pg EXCEPT !.app = IF d.r.t = "other" THEN "other"
                                 ELSE IF Truthy(d.r) THEN "viewer" ELSE "creator",
                         !.routed = TRUE],
   shared |-> d.shared]

\* route(): parseUrl() returned a hash and decode is called, or it returned
\* null
DecodeHash(hash, env) ==
  IF hash = Null THEN [r |-> Null, shared |-> env] ELSE decode(hash, env)

\* route() rendering the viewer for every hash that is not empty
routeWithoutNullCheck(pg, location, env) ==
  [page   |-> [pg EXCEPT !.app = IF parseUrl(location) = Null THEN "creator" ELSE "viewer",
                         !.routed = TRUE],
   shared |-> DecodeHash(parseUrl(location), env).shared]

\* route(): the page it leaves and the shared objects as decode leaves them
route(pg, location, env) == Routed(pg, DecodeHash(parseUrl(location), env))

\* init(): the hashchange listener is added once route() returned r
Listening(r) == [page |-> [r.page EXCEPT !.hashchange = TRUE], shared |-> r.shared]

\* init() after the await, run without its try / catch: it goes on with
\* whatever loadConfig settled with
initAfterAwaitUnguarded(settled, pg, location, env) ==
  Listening(route([pg EXCEPT !.keydown = TRUE], location, env))

\* init() after the await: the rest of the try block when loadConfig
\* resolved, the catch block when it rejected
initAfterAwait(settled, pg, location, env) ==
  IF settled.t = "config"
  THEN Listening(route([pg EXCEPT !.keydown = TRUE], location, env))
  ELSE [page |-> [pg EXCEPT !.app = "notice"], shared |-> env]

(***************************************************************************)
(* The inputs tried                                                        *)
(***************************************************************************)
SeqsUpTo(S, n) == UNION {[1..k -> S] : k \in 0..n}

\* code units the strings are made of: a letter, a digit, the sign, the
\* delimiters, the escape prefix, a space, a non-ASCII letter, a surrogate pair
Alphabet == {"a", "1", "-", ";", ":", ",", "~", " ", "U+00E9", "U+D83D", "U+DE00"}

ExampleStrings ==
  { << "p", "r", "o", "d" >>, << "1", "2", "3" >>, << "-", "4", "2" >>,
    << "0", "0", "7" >>, << "x", "_", "Y", "-", "2" >>,
    << "C", "l", "a", "u", "d", "e", " ", "C", "o", "d", "e" >>,
    << "U+20AC", "1", "," >>, << "U+D83D", "U+DE00", "!" >> }

Strings == SeqsUpTo(Alphabet, MaxStrLen) \cup ExampleStrings

Numbers == {Num(0), Num(7), Num(123), Num(0 - 3), Frac(1, 5), NaN}

\* what the arrays hold
Elements ==
  { Str(<< "d", "o", "c" >>), Str(<< "c", "o", "d", "e" >>), Str(<< "a", " ", "b" >>),
    Str(<< "x", ",", "y" >>), Str(<< >>), Str(<< "7" >>), Num(3), Bool(TRUE) }

Arrays ==
  {Arr(e) : e \in SeqsUpTo(Elements, MaxArrLen)}
    \cup {Arr(<< Arr(<< Str(<< "a" >>), Str(<< "b", ";" >>) >>), Str(<< "c" >>) >>)}

NestedObjects ==
  { Obj(<< >>),
    Obj(<< << << "d", "e", "p", "l", "o", "y" >>, Str(<< "p", "u", "b" >>) >> >>),
    Obj(<< << << "n" >>, Obj(<< << << "m" >>, Str(<< "a", ":" >>) >> >>) >>,
           << << "k" >>, Num(5) >> >>) }

Values ==
  {Str(s) : s \in Strings} \cup Numbers \cup {Bool(TRUE), Bool(FALSE), Null, Undefined}
    \cup Arrays \cup NestedObjects

\* the values of the mappings with several fields
FewValues ==
  { Str(<< "p", "r" >>), Str(<< >>), Str(<< "a", ";", "b" >>), Num(4),
    Arr(<< Str(<< "d", "o", "c" >>), Str(<< "c", "o", "d", "e" >>) >>),
    Obj(<< << << "d" >>, Str(<< "i", "n", "t" >>) >> >>) }

FieldKeys ==
  { << "a" >>, << "r", "i", "s", "k" >>, << "1" >>, << "o" >>, << "_", "v" >> }

\* the object a literal with these fields in this order evaluates to
RECURSIVE ObjectOf(_)
ObjectOf(fields) ==
  IF Len(fields) = 0 THEN << >>
  ELSE ObjSet(ObjectOf(SubSeq(fields, 1, Len(fields) - 1)),
              fields[Len(fields)][1], fields[Len(fields)][2])

\* the keys of the mappings with several fields
FewKeys == { << "b" >>, << "1" >>, << "o" >> }

\* mappings of one field, and of up to MaxFields fields
OneFieldData == {Obj(<< << k, v >> >>) : k \in FieldKeys, v \in Values}
ManyFieldData ==
  {Obj(ObjectOf(f)) :
     f \in {g \in SeqsUpTo(FewKeys \X FewValues, MaxFields) :
              \A i, j \in 1..Len(g) : g[i][1] = g[j][1] => i = j}}

\* config.meta as encode reads it
Configs ==
  [formatVersion : {Undefined, Num(1), Num(2)},
   origin : {Undefined, Str(<< "c", "o" >>), Str(<< "a", ".", "b" >>),
             Str(<< "m", "y", "-", "o", "r", "g" >>)}]
NoConfig == [formatVersion |-> Undefined, origin |-> Undefined]
OtherConfig == [formatVersion |-> Num(2), origin |-> Str(<< "c", "o", ".", "d", "e", "v" >>)]

\* the segments the raw statements are made of
Segments ==
  { << "v", ":", "1" >>, << "v", ":", "2", "a" >>, << "v", ":", "x" >>,
    << "o", ":", "c", "o" >>, << "o", ":", "~", "Y", "S", "5", "i" >>,
    << "a", ":", "1" >>, << "a", ":", "x", "y", "z" >>, << "a", ".", "b", ":", "2" >>,
    << "a", ".", "b", ".", "c", ":", "3" >>,
    << "b", ":", "~", "Y", "T", "t", "i" >>, << "b", ":", "~", "!", "!" >>,
    << "b", ":", "~", "w", "w" >>, << "b", ":", "~", "Y" >>,
    << "n", ":", "p", ",", "q" >>, << "n", ":", "p", ",", "~", "Y", "Q", ",", "5" >>,
    << "t", ":", ":", "z" >>, << ":", "z" >>, << "x" >>, << >>,
    << "n", "o", "t", " ", "a", " ", "v", "a", "l", "i", "d", " ",
       "s", "t", "a", "t", "e", "m", "e", "n", "t" >>,
    << "f", "u", "t", "u", "r", "e", "f", "i", "e", "l", "d", ":", "x", "y", "z" >>,
    << "1", ":", "q" >>, << "_", "v", ":", "9" >>,
    ProtoKey \o << ":", "x", "y", "z" >>, ProtoKey \o << ".", "a", ":", "1" >>,
    ConstructorKey \o << ":", "c" >>, ConstructorKey \o << ".", "a", ":", "1" >> }

\* statements of the documentation
ExampleStatements ==
  { << "v", ":", "1", ";", "o", ":", "c", "o", ";",
       "f", "u", "t", "u", "r", "e", "f", "i", "e", "l", "d", ":", "x", "y", "z" >>,
    << "v", ":", "1", ";", "o", ":", "c", "o", ";",
       "s", "c", "o", "p", "e", ":", "p", "r", ";", "a", "i", ":", "c", "o", "d", "e" >>,
    << "v", ":", "1", ";", "o", ":", "c", "o", ";" >> \o ProtoKey \o << ":", "x", "y", "z" >>,
    << "v", ":", "1", ";", "o", ":", "c", "o", ";",
       "o", "v", "e", "r", "s", "i", "g", "h", "t", ":", "n", "o", "n", "e", ";",
       "r", "i", "s", "k", ".", "d", "e", "p", "l", "o", "y", ":", "p", "u", "b" >> }

\* what a caller may hand to decode: a statement of segments, or no string
RawInputs ==
  {Str(Join(segs, ";")) : segs \in SeqsUpTo(Segments, MaxSegs)}
    \cup {Str(e) : e \in ExampleStatements}
    \cup {Null, Undefined, Num(0), Num(7), Obj(<< >>)}

\* rule conditions: chains t1 op t2 op ... of up to MaxTerms terms
Terms == { << "a" >>, << "b" >>, << "N", "O", "T", " ", "c" >> }
Operators == { << "A", "N", "D" >>, << "O", "R" >> }

RECURSIVE Chains(_)
Chains(n) ==
  IF n = 1 THEN Terms
  ELSE {c \o << " " >> \o op \o << " " >> \o t : c \in Chains(n - 1), op \in Operators, t \in Terms}

ChainRules == UNION {Chains(n) : n \in 1..MaxTerms}

\* conditions of the documentation, other spellings, and malformed ones
ExampleRules ==
  { << "r", "i", "s", "k", " ", ">", "=", " ", "4", " ", "A", "N", "D", " ", "o", "v", "e", "r", "s", "i", "g", "h", "t", " ", "<", "=", " ", "2" >>,
    << "a", " ", "A", "N", "D", " ", "b", " ", "O", "R", " ", "c" >>,
    << "x", " ", ">", "=", " ", "1", " ", "O", "R", " ", "a", " ", "A", "N", "D", " ", "b" >>,
    << "a", " ", "O", "R", " ", "b", " ", "A", "N", "D", " ", "c" >>,
    << "a", " ", "a", "n", "d", " ", "b", " ", "o", "r", " ", "c" >>,
    << "a", " ", "&", "&", " ", "b", " ", "|", "|", " ", "c" >>,
    << "!", "(", "a", " ", "|", "|", " ", "b", ")", " ", "&", "&", " ", "t", "r", "u", "e" >>,
    << "(", "a", " ", "O", "R", " ", "b", ")", " ", "A", "N", "D", " ", "N", "O", "T", " ", "c" >>,
    << "x", " ", ">", "=", " ", "1" >>,
    << "x", " ", ">", "=", " ", "y" >>,
    << "x", " ", "=", "=", " ", "2" >>,
    << "x", " ", "!", "=", " ", "1", ".", "5" >>,
    << "x", " ", "<", " ", "2" >>,
    << "x", " ", ">", " ", "1" >>,
    << "x", " ", "<", "=", " ", "2" >>,
    << "t", "r", "u", "e" >>,
    << "f", "a", "l", "s", "e" >>,
    << "c", "o", "n", "s", "t", "r", "u", "c", "t", "o", "r" >>,
    << "t", "o", "S", "t", "r", "i", "n", "g", " ", "!", "=", " ", "0" >>,
    << "r", "i", "s", "k", " ", ">", "=" >>,
    << "(", "a" >>,
    << "a", " ", ")" >>,
    << "a", " ", "b" >>,
    << "a", " ", ">", "=", " ", "1", " ", "2" >>,
    << >>,
    << "4" >>,
    << "4", " ", ">", "=", " ", "x" >>,
    << "N", "O", "T", " ", "N", "O", "T", " ", "a" >>,
    << "a", " ", "$", " ", "b" >>,
    << "A", "N", "D", " ", "a" >>,
    << "a", " ", "A", "N", "D" >>,
    << "(", ")" >>,
    << "x", " ", ">", "=", " ", "(", "1", ")" >>,
    << "T", "R", "U", "E" >>,
    << "N", "o", "t", " ", "a", " ", "O", "r", " ", "F", "a", "l", "s", "e" >>,
    << "!", "a", " ", "&", "&", " ", "x", "!", "=", "1" >>,
    << "N", "O", "T", " ", "a", " ", "A", "N", "D", " ", "b" >>,
    << "N", "O", "T", " ", "x", " ", ">", "=", " ", "1" >>,
    << "N", "O", "T", " ", "(", "a", " ", "O", "R", " ", "b", ")" >>,
    << "!", "!", "a" >>,
    << "a", " ", "N", "O", "T", " ", "N", "O", "T", " ", "b" >>,
    << "a", " ", "A", "N", "D", " ", "N", "O", "T", " ", "b", " ", "O", "R", " ", "c" >> }

RuleTexts == ChainRules \cup ExampleRules

\* contexts: every assignment of booleans to a, b, c, and contexts of numbers
BoolContexts ==
  { Obj(<< << << "a" >>, Bool(x) >>, << << "b" >>, Bool(y) >>, << << "c" >>, Bool(z) >> >>) :
      x \in BOOLEAN, y \in BOOLEAN, z \in BOOLEAN }

ExampleContexts ==
  { Obj(<< >>),
    Obj(<< << << "r", "i", "s", "k" >>, Num(4) >>, << << "o", "v", "e", "r", "s", "i", "g", "h", "t" >>, Num(1) >> >>),
    Obj(<< << << "r", "i", "s", "k" >>, Num(4) >>, << << "o", "v", "e", "r", "s", "i", "g", "h", "t" >>, Num(3) >> >>),
    Obj(<< << << "x" >>, Num(2) >> >>),
    Obj(<< << << "x" >>, Num(1) >>, << << "y" >>, Num(1) >> >>),
    Obj(<< << << "a" >>, Num(4) >>, << << "b" >>, Num(0) >>, << << "c" >>, Bool(TRUE) >> >>) }

Contexts == BoolContexts \cup ExampleContexts

\* statements the program decodes between two evaluations
StatementsSeen ==
  { Str(<< "v", ":", "1", ";", "o", ":", "c", "o", ";", "a", ":", "1" >>),
    Str(ProtoKey \o << ".", "x", ":", "5" >>) }

\* the rules of the configurations: a condition and an outcome
Conditions ==
  { Str(<< "r", "i", "s", "k", " ", ">", "=", " ", "4", " ", "A", "N", "D", " ", "o", "v", "e", "r", "s", "i", "g", "h", "t", " ", "<", "=", " ", "2" >>), Str(<< "h", "a", "s", "A", "i" >>), Str(<< "t", "r", "u", "e" >>), Str(<< "x" >>), Str(<< "r", "i", "s", "k", " ", ">", "=" >>), Undefined }

Rule(condition, level) ==
  [id |-> level, condition |-> condition, level |-> level,
   color |-> IF level = "critical" THEN "ef4444" ELSE "22c55e",
   label |-> IF level = "critical" THEN "High Risk" ELSE "Reviewed"]

RuleChoices == {Rule(c, l) : c \in Conditions, l \in {"critical", "good"}}

\* a configuration in the shape of coauthored.json
ExampleFields ==
  << << << "s", "c", "o", "p", "e" >>, [type |-> "enum", values |-> TRUE, category |-> "context",
             score |-> Obj(<< << << "p", "r" >>, Num(2) >>, << << "p", "r", "o", "d" >>, Num(4) >> >>)] >>,
     << << "r", "i", "s", "k", ".", "d", "e", "p", "l", "o", "y" >>, [type |-> "enum", values |-> TRUE, category |-> "risk",
             score |-> Obj(<< << << "i", "n", "t" >>, Num(1) >>, << << "p", "u", "b" >>, Num(5) >> >>)] >>,
     << << "o", "v", "e", "r", "s", "i", "g", "h", "t" >>, [type |-> "enum", values |-> TRUE, category |-> "",
             score |-> Obj(<< << << "n", "o", "n", "e" >>, Num(1) >>, << << "f", "u", "l", "l" >>, Num(5) >> >>)] >>,
     << << "a", "i" >>, [type |-> "flags", values |-> TRUE, category |-> "",
             score |-> Undefined] >> >>

ExampleComputed ==
  << << << "r", "i", "s", "k" >>, [type |-> "max", fields |-> << << "s", "c", "o", "p", "e" >>, << "r", "i", "s", "k", ".", "d", "e", "p", "l", "o", "y" >> >>,
             field |-> << >>, values |-> << >>] >>,
     << << "o", "v", "e", "r", "s", "i", "g", "h", "t" >>, [type |-> "lookup", fields |-> << >>, field |-> << "o", "v", "e", "r", "s", "i", "g", "h", "t" >>, values |-> << >>] >>,
     << << "h", "a", "s", "A", "i" >>, [type |-> "includes_any", fields |-> << >>, field |-> << "a", "i" >>,
             values |-> << Str(<< "c", "o", "d", "e" >>), Str(<< "d", "o", "c" >>) >>] >> >>

ExampleMeta ==
  [formatVersion |-> Num(1), schemaVersion |-> Str(<< "1" >>), origin |-> Str(<< "c", "o" >>)]

ConfigWith(rules) ==
  [absent |-> {}, meta |-> ExampleMeta, categories |-> {"context", "risk"}, fields |-> ExampleFields,
   computed |-> ExampleComputed, rules |-> rules]

OneRule == << Rule(Str(<< "t", "r", "u", "e" >>), "good") >>

\* configurations validateConfig rejects before it reaches the rules
BrokenConfigs ==
  { [ConfigWith(OneRule) EXCEPT !.absent = {"meta"}],
    [ConfigWith(OneRule) EXCEPT !.meta.origin = Str(<< >>)],
    [ConfigWith(OneRule) EXCEPT !.absent = {"rules"}],
    [ConfigWith(OneRule) EXCEPT !.fields[1][2].type = "number"],
    [ConfigWith(OneRule) EXCEPT !.fields[4][2].values = FALSE],
    [ConfigWith(OneRule) EXCEPT !.fields[3][2].category = "other"],
    [ConfigWith(OneRule) EXCEPT !.computed[1][2].type = "min"] }

ConfigFiles ==
  {ConfigWith(rules) : rules \in SeqsUpTo(RuleChoices, MaxRules)}
    \cup {[ConfigWith(OneRule) EXCEPT !.absent = {"scoring"}]}
    \cup BrokenConfigs

\* the statements handed to the command assess
AssessStatements ==
  { Str(<< "v", ":", "1", ";", "o", ":", "c", "o", ";", "o", "v", "e", "r", "s", "i", "g", "h", "t", ":", "n", "o", "n", "e", ";", "r", "i", "s", "k", ".", "d", "e", "p", "l", "o", "y", ":", "p", "u", "b" >>),
    Str(<< "v", ":", "1", ";", "o", ":", "c", "o", ";", "s", "c", "o", "p", "e", ":", "p", "r", "o", "d", ";", "o", "v", "e", "r", "s", "i", "g", "h", "t", ":", "f", "u", "l", "l" >>),
    Str(<< "v", ":", "1", ";", "o", ":", "c", "o", ";", "s", "c", "o", "p", "e", ":", "p", "r", ";", "a", "i", ":", "d", "o", "c", ",", "t", "e", "s", "t" >>),
    Str(<< "a", "i", ":", "c", "o", "d", "e" >>),
    Str(<< "s", "c", "o", "p", "e", ":", "7", ";", "r", "i", "s", "k", ":", "h", "i", "g", "h" >>),
    Str(<< "x" >>),
    Str(<< "a", ":", "1", ";", "a", ".", "b", ":", "2" >>),
    Str(ProtoKey \o << ".", "x", ":", "1" >>) }

\* window.location.hash
Locations ==
  { << >>, << "#", "v", ":", "1", ";", "o", ":", "c", "o", ";", "s", "c", "o", "p", "e", ":", "p", "r" >>,
    << "#", "/", "v", ":", "1", ";", "o", ":", "c", "o", ";", "a", "i", ":", "c", "o", "d", "e" >>,
    << "#", "x" >>,
    << "#", "a", ":", "1", ";", "a", ".", "b", ":", "2" >>,
    << "#" >> \o ProtoKey \o << ".", "x", ":", "5" >> }

\* the lists of pairs handed to unflatten: dotted paths, scalar or array values
PairKeys ==
  { << "a" >>, << "b" >>, << "a", ".", "b" >>, << "a", ".", "c" >>,
    << "a", ".", "b", ".", "c" >>, << "1" >>, ProtoKey }

PairValues ==
  { Num(1), Str(<< "x" >>), Arr(<< Str(<< "p" >>), Num(2) >>) }

\* (an array assigned to __proto__ replaces the prototype of the result, and
\* a path through an array adds a property to the array: the arrays are the
\* values of b only)
PairLists ==
  SeqsUpTo({kv \in PairKeys \X PairValues : kv[2].t = "arr" => kv[1] = << "b" >>}, MaxPairs)

(***************************************************************************)
(* The codec in use: a caller encodes a mapping and decodes the statement, *)
(* or decodes a string it was handed (a URL hash, a command-line argument) *)
(***************************************************************************)
VARIABLES
  call,       \* "encode": the caller starts from a mapping; "decode": from a string;
              \* "rules": from a rule condition; "assess": the command line;
              \* "app": the page
  data,       \* the mapping handed to encode
  config,     \* config.meta handed to encode
  statement,  \* the value handed to decode
  decoded,    \* what decode returned
  shared,     \* own properties added to the objects all scripts share
  pc,
  rule,       \* the condition handed to compile
  evaluator,  \* what compile returned
  ctx,        \* the context of the last call of the evaluator
  verdict,    \* what that call returned
  configFile, \* the configuration as parsed from coauthored.json
  loaded,     \* the configuration loadConfig / loadConfigSync returned
  outcome,    \* what assess returned
  response,   \* how the fetch of the configuration ended
  page,       \* the page: what #app shows, the listeners, the calls of route
  pairs,      \* the pairs handed to unflatten
  unflattened,\* what unflatten returned
  flattened,  \* what flatten returned for it
  steps,      \* Stepper: this.steps, the step keys
  present,    \* the steps whose element is in the document
  onStepChange, \* Stepper: whether this.onStepChange is a function
  currentStep,\* Stepper: this.currentStep
  visible,    \* the steps whose element has aria-hidden="false"
  timers,     \* the callbacks setTimeout holds, in the order they fire
  notified,   \* the calls of onStepChange so far
  lastCall,   \* the last call on the stepper or the draft store, and its return
  storage,    \* localStorage: the text stored under the draft key
  lastSaved,  \* the draft the last saveDraft that stored one wrote
  savedCount  \* the drafts stored so far, the clock savedAt is read from

engineVars == << rule, evaluator, ctx, verdict >>
loadVars   == << configFile, loaded, outcome >>
appVars    == << response, page >>
pairVars   == << pairs, unflattened, flattened >>
stepVars   == << steps, present, onStepChange, currentStep, visible, timers, notified >>
draftVars  == << lastCall, storage, lastSaved, savedCount >>
laterVars  == << pairVars, stepVars, draftVars >>

vars == << call, data, config, statement, decoded, shared, pc,
           rule, evaluator, ctx, verdict, configFile, loaded, outcome, response, page,
           pairs, unflattened, flattened, steps, present, onStepChange, currentStep,
           visible, timers, notified, lastCall, storage, lastSaved, savedCount >>

\* the parts of the state a program does not use
EngineIdle == rule = Undefined /\ evaluator = Undefined /\ ctx = Undefined /\ verdict = Undefined
LoadIdle   == configFile = Undefined /\ loaded = Undefined /\ outcome = Undefined
AppIdle    == response = Undefined /\ page = Undefined
PairsIdle  == pairs = Undefined /\ unflattened = Undefined /\ flattened = Undefined
StepIdle   ==
  /\ steps = Undefined /\ present = Undefined /\ onStepChange = Undefined
  /\ currentStep = Undefined
  /\ visible = Undefined /\ timers = Undefined /\ notified = Undefined
DraftIdle  ==
  /\ lastCall = Undefined /\ storage = Undefined
  /\ lastSaved = Undefined /\ savedCount = Undefined
LaterIdle  == PairsIdle /\ StepIdle /\ DraftIdle

Init ==
  /\ pc = "start"
  /\ decoded = Undefined
  /\ shared = NoSharedProps
  /\ EngineIdle /\ LoadIdle /\ AppIdle
  /\ \/ /\ call = "encode"
        /\ \/ data \in OneFieldData /\ config \in {NoConfig, OtherConfig}
           \/ data \in ManyFieldData /\ config \in Configs
        /\ statement = Undefined
     \/ /\ call = "decode"
        /\ data = Undefined
        /\ config = NoConfig
        /\ statement \in RawInputs
  /\ LaterIdle

Encode ==
  /\ pc = "start"
  /\ call = "encode"
  /\ statement' = Str(encode(data, config))
  /\ pc' = "encoded"
  /\ UNCHANGED << call, data, config, decoded, shared >>
  /\ UNCHANGED << engineVars, loadVars, appVars >>
  /\ UNCHANGED laterVars

Decode ==
  /\ \/ pc = "encoded"
     \/ pc = "start" /\ call = "decode"
  /\ LET d == decode(statement, shared)
     IN  /\ decoded' = d.r
         /\ shared' = d.shared
  /\ pc' = "decoded"
  /\ UNCHANGED << call, data, config, statement >>
  /\ UNCHANGED << engineVars, loadVars, appVars >>
  /\ UNCHANGED laterVars

Next == Encode \/ Decode

Spec == Init /\ [][Next]_vars

\* every object the inputs lead decode to is one this model follows
Followed == decoded.t # "other"

(***************************************************************************)
(* The rule engine in use: a condition is compiled once, its evaluator is  *)
(* called on contexts any number of times, and the program decodes a       *)
(* statement at some point in between (cli.js, the command assess)         *)
(***************************************************************************)
\* decode returns d.r and leaves the shared objects as d.shared
DecodeReturns(d) == decoded' = d.r /\ shared' = d.shared

InitRules ==
  /\ pc = "start"
  /\ call = "rules"
  /\ rule \in {Str(t) : t \in RuleTexts}
  /\ evaluator = Undefined /\ ctx = Undefined /\ verdict = Undefined
  /\ statement \in StatementsSeen
  /\ decoded = Undefined
  /\ shared = NoSharedProps
  /\ data = Undefined /\ config = NoConfig
  /\ LoadIdle /\ AppIdle
  /\ LaterIdle

Compile ==
  /\ pc = "start"
  /\ call = "rules"
  /\ evaluator' = compile(rule)
  /\ pc' = IF evaluator'.t = "evaluator" THEN "compiled" ELSE "rejected"
  /\ UNCHANGED << call, data, config, statement, decoded, shared, rule, ctx, verdict >>
  /\ UNCHANGED << loadVars, appVars >>
  /\ UNCHANGED laterVars

DecodeStatement ==
  /\ pc \in {"compiled", "evaluated"}
  /\ decoded = Undefined
  /\ DecodeReturns(decode(statement, shared))
  /\ pc' = "compiled"
  /\ UNCHANGED << call, data, config, statement, engineVars, loadVars, appVars >>
  /\ UNCHANGED laterVars

Evaluate ==
  /\ pc \in {"compiled", "evaluated"}
  /\ \E c \in Contexts :
       /\ ctx' = c
       /\ verdict' = evaluate(evaluator.x, c, shared)
  /\ pc' = "evaluated"
  /\ UNCHANGED << call, data, config, statement, decoded, shared, rule, evaluator >>
  /\ UNCHANGED << loadVars, appVars >>
  /\ UNCHANGED laterVars

NextRules == Compile \/ DecodeStatement \/ Evaluate

SpecRules == InitRules /\ [][NextRules]_vars

\* every value the evaluations reach is one this model follows
VerdictFollowed == verdict.t # "other" /\ evaluator.t # "other"

(***************************************************************************)
(* The command line (cli.js, command assess): the configuration is loaded, *)
(* the statement is decoded and assessed                                   *)
(***************************************************************************)
InitCli ==
  /\ pc = "start"
  /\ call = "assess"
  /\ response \in {"ok", "unreadable"}
  /\ configFile \in ConfigFiles
  /\ statement \in AssessStatements
  /\ loaded = Undefined /\ outcome = Undefined
  /\ decoded = Undefined
  /\ shared = NoSharedProps
  /\ data = Undefined /\ config = NoConfig
  /\ page = Undefined
  /\ EngineIdle
  /\ LaterIdle

LoadConfigSync ==
  /\ pc = "start"
  /\ call = "assess"
  /\ loaded' = loadConfigSync(response, configFile)
  /\ pc' = IF loaded'.t = "config" THEN "loaded" ELSE "exited"
  /\ UNCHANGED << call, data, config, statement, decoded, shared >>
  /\ UNCHANGED << engineVars, configFile, outcome, appVars >>
  /\ UNCHANGED laterVars

DecodeArgument ==
  /\ pc = "loaded"
  /\ call = "assess"
  /\ DecodeReturns(decode(statement, shared))
  /\ pc' = "decodedArgument"
  /\ UNCHANGED << call, data, config, statement, engineVars, loadVars, appVars >>
  /\ UNCHANGED laterVars

Assess ==
  /\ pc = "decodedArgument"
  /\ outcome' = assess(decoded, loaded, shared)
  /\ pc' = "assessed"
  /\ UNCHANGED << call, data, config, statement, decoded, shared >>
  /\ UNCHANGED << engineVars, configFile, loaded, appVars >>
  /\ UNCHANGED laterVars

NextCli == LoadConfigSync \/ DecodeArgument \/ Assess

SpecCli == InitCli /\ [][NextCli]_vars

\* every outcome reached is one this model follows
OutcomeFollowed == outcome = Undefined \/ outcome.level # "other"

(***************************************************************************)
(* The page (app.js): init awaits loadConfig and goes on or shows the      *)
(* error notice; the browser fires hashchange and keydown at any time      *)
(***************************************************************************)
\* a handler leaves the page as r.page and the shared objects as r.shared
PageBecomes(r) == page' = r.page /\ shared' = r.shared

InitApp ==
  /\ pc = "loading"
  /\ call = "app"
  /\ response \in {"ok", "status404", "networkError", "invalidJSON"}
  /\ configFile \in ConfigFiles
  /\ statement \in {Str(l) : l \in Locations}
  /\ page = PageAtStart
  /\ loaded = Undefined /\ outcome = Undefined
  /\ decoded = Undefined
  /\ shared = NoSharedProps
  /\ data = Undefined /\ config = NoConfig
  /\ EngineIdle
  /\ LaterIdle

\* the promise of loadConfig settles
LoadConfigSettles ==
  /\ pc = "loading"
  /\ loaded' = loadConfig(response, configFile)
  /\ pc' = "settled"
  /\ UNCHANGED << call, data, config, statement, decoded, shared >>
  /\ UNCHANGED << engineVars, configFile, outcome, response, page >>
  /\ UNCHANGED laterVars

\* init goes on after its await
InitResumes ==
  /\ pc = "settled"
  /\ PageBecomes(initAfterAwait(loaded, page, statement.x, shared))
  /\ pc' = IF loaded.t = "config" THEN "running" ELSE "failed"
  /\ UNCHANGED << call, data, config, statement, decoded, engineVars, loadVars, response >>
  /\ UNCHANGED laterVars

\* the hash of the location changes; the listener, if registered, is route
HashChange ==
  /\ call = "app"
  /\ \E l \in Locations :
       /\ Str(l) # statement
       /\ statement' = Str(l)
       /\ IF page.hashchange
          THEN PageBecomes(route(page, l, shared))
          ELSE UNCHANGED << page, shared >>
  /\ UNCHANGED << call, data, config, decoded, pc, engineVars, loadVars, response >>
  /\ UNCHANGED laterVars

\* Cmd/Ctrl + Enter; the listener, if registered, is submitStatement, which
\* pushes the value of the output field, if it has one, as the hash and routes
Keydown ==
  /\ call = "app"
  /\ page.keydown
  /\ page.app \in {"viewer", "creator"}
  /\ \E l \in Locations \ {<< >>} :
       /\ statement' = Str(l)
       /\ PageBecomes(route([page EXCEPT !.pushed = TRUE], l, shared))
  /\ UNCHANGED << call, data, config, decoded, pc, engineVars, loadVars, response >>
  /\ UNCHANGED laterVars

NextApp == LoadConfigSettles \/ InitResumes \/ HashChange \/ Keydown

SpecApp == InitApp /\ [][NextApp]_vars

\* every page reached is one this model follows
PageFollowed == page.app # "other"

(***************************************************************************)
(* flatten after unflatten: a list of pairs is made a mapping, and the     *)
(* mapping a list of pairs again (decode and encode do the two halves)     *)
(***************************************************************************)
InitPairs ==
  /\ pc = "start"
  /\ call = "pairs"
  /\ pairs \in PairLists
  /\ unflattened = Undefined /\ flattened = Undefined
  /\ shared = NoSharedProps
  /\ data = Undefined /\ config = NoConfig /\ statement = Undefined /\ decoded = Undefined
  /\ EngineIdle /\ LoadIdle /\ AppIdle /\ StepIdle /\ DraftIdle

\* what unflatten returns: the mapping, or the TypeError it throws
UnflattenReturns(u) ==
  /\ unflattened' = IF u.st = "ok" THEN Obj(u.w[ResultId])
                    ELSE IF u.st = "throw" THEN Thrown ELSE NotModelled
  /\ shared' = SharedOf(u.w)
  /\ pc' = IF u.st = "ok" THEN "unflattened" ELSE "threw"

Unflatten ==
  /\ pc = "start"
  /\ call = "pairs"
  /\ UnflattenReturns(unflatten(pairs, shared))
  /\ UNCHANGED << call, data, config, statement, decoded, pairs, flattened >>
  /\ UNCHANGED << engineVars, loadVars, appVars, stepVars, draftVars >>

Flatten ==
  /\ pc = "unflattened"
  /\ flattened' = flatten(unflattened.x, << >>)
  /\ pc' = "flattened"
  /\ UNCHANGED << call, data, config, statement, decoded, shared, pairs, unflattened >>
  /\ UNCHANGED << engineVars, loadVars, appVars, stepVars, draftVars >>

NextPairs == Unflatten \/ Flatten

SpecPairs == InitPairs /\ [][NextPairs]_vars

\* every mapping unflatten reaches is one this model follows
PairsFollowed == unflattened.t # "other"

(***************************************************************************)
(* The stepper of the wizard (stepper.js): goToStep, next, prev and the    *)
(* timeouts goToStep starts.  All timeouts have the same delay, so they    *)
(* fire in the order they were started.                                    *)
(***************************************************************************)
\* the step keys of the wizard
WizardSteps == << "basics", "ai", "oversight", "context", "validation", "meta" >>

\* a call of the stepper and the index it asks for
StepCall(op, index) == [t |-> "call", x |-> << op, index >>]

\* document.querySelector('.step[data-step="' + steps[index] + '"]') finds an
\* element; steps[index] is undefined outside the list
StepElementFound(index) ==
  index \in 0..(Len(steps) - 1) /\ steps[index + 1] \in present

\* the callback of the first setTimeout leaving the element left as it is
exitTimeoutWithoutHide(shown, timer) == shown \cup {timer.show}

\* the callback of the first setTimeout of goToStep: the element left is
\* hidden, the element entered is shown
exitTimeout(shown, timer) == (shown \ {timer.hide}) \cup {timer.show}

\* goToStep without the test for the step the stepper is at
goToStepWithoutSameCheck(index) ==
  IF index < 0 \/ index >= Len(steps) THEN [currentStep |-> currentStep, timers |-> timers, notified |-> notified]
  ELSE IF ~StepElementFound(currentStep) \/ ~StepElementFound(index)
       THEN [currentStep |-> currentStep, timers |-> timers, notified |-> notified]
  ELSE [currentStep |-> index,
        timers      |-> Append(timers, [hide |-> steps[currentStep + 1], show |-> steps[index + 1]]),
        notified    |-> IF onStepChange
                        THEN Append(notified,
                                    << index, currentStep,
                                       IF index > currentStep THEN "forward" ELSE "back" >>)
                        ELSE notified]

\* goToStep(index): the stepper after the call
goToStep(index) ==
  IF index < 0 \/ index >= Len(steps) THEN [currentStep |-> currentStep, timers |-> timers, notified |-> notified]
  ELSE IF index = currentStep THEN [currentStep |-> currentStep, timers |-> timers, notified |-> notified]
  ELSE IF ~StepElementFound(currentStep) \/ ~StepElementFound(index)
       THEN [currentStep |-> currentStep, timers |-> timers, notified |-> notified]
  ELSE [currentStep |-> index,
        timers      |-> Append(timers, [hide |-> steps[currentStep + 1], show |-> steps[index + 1]]),
        notified    |-> IF onStepChange
                        THEN Append(notified,
                                    << index, currentStep,
                                       IF index > currentStep THEN "forward" ELSE "back" >>)
                        ELSE notified]

StepperBecomes(s) ==
  currentStep' = s.currentStep /\ timers' = s.timers /\ notified' = s.notified

\* new Stepper(steps, config, onStepChange) and the wizard as renderWizard
\* writes it: the first step shown, the others hidden
InitStepper ==
  /\ pc = "start"
  /\ call = "stepper"
  /\ steps \in {SubSeq(WizardSteps, 1, n) : n \in 1..MaxSteps}
  /\ present \in SUBSET {steps[i] : i \in 1..Len(steps)}
  /\ onStepChange \in BOOLEAN
  /\ currentStep = 0
  /\ visible = {steps[1]} \cap present
  /\ timers = << >>
  /\ notified = << >>
  /\ lastCall = Undefined /\ storage = Undefined
  /\ lastSaved = Undefined /\ savedCount = Undefined
  /\ shared = NoSharedProps
  /\ data = Undefined /\ config = NoConfig /\ statement = Undefined /\ decoded = Undefined
  /\ EngineIdle /\ LoadIdle /\ AppIdle /\ PairsIdle

\* a click on a step of the indicator, or any other caller of goToStep
GoToStep ==
  /\ call = "stepper"
  /\ Len(timers) < MaxCalls /\ Len(notified) < MaxCalls
  /\ \E index \in (0 - 1)..(Len(steps) + 1) :
       /\ lastCall' = StepCall("goToStep", index)
       /\ StepperBecomes(goToStep(index))
  /\ UNCHANGED << call, data, config, statement, decoded, shared, pc >>
  /\ UNCHANGED << steps, present, visible, onStepChange, storage, lastSaved, savedCount >>
  /\ UNCHANGED << engineVars, loadVars, appVars, pairVars >>

StepNext ==
  /\ call = "stepper"
  /\ Len(timers) < MaxCalls /\ Len(notified) < MaxCalls
  /\ lastCall' = StepCall("next", currentStep + 1)
  /\ StepperBecomes(goToStep(currentStep + 1))
  /\ UNCHANGED << call, data, config, statement, decoded, shared, pc >>
  /\ UNCHANGED << steps, present, visible, onStepChange, storage, lastSaved, savedCount >>
  /\ UNCHANGED << engineVars, loadVars, appVars, pairVars >>

StepPrev ==
  /\ call = "stepper"
  /\ Len(timers) < MaxCalls /\ Len(notified) < MaxCalls
  /\ lastCall' = StepCall("prev", currentStep - 1)
  /\ StepperBecomes(goToStep(currentStep - 1))
  /\ UNCHANGED << call, data, config, statement, decoded, shared, pc >>
  /\ UNCHANGED << steps, present, visible, onStepChange, storage, lastSaved, savedCount >>
  /\ UNCHANGED << engineVars, loadVars, appVars, pairVars >>

\* the oldest timeout fires
TimeoutFires ==
  /\ call = "stepper"
  /\ timers # << >>
  /\ visible' = exitTimeout(visible, Head(timers))
  /\ timers' = Tail(timers)
  /\ UNCHANGED << call, data, config, statement, decoded, shared, pc >>
  /\ UNCHANGED << steps, present, currentStep, notified, onStepChange, draftVars >>
  /\ UNCHANGED << engineVars, loadVars, appVars, pairVars >>

NextStepper == GoToStep \/ StepNext \/ StepPrev \/ TimeoutFires

SpecStepper == InitStepper /\ [][NextStepper]_vars

(***************************************************************************)
(* The draft store (app.js): saveDraft, loadDraft, clearDraft on the item  *)
(* localStorage holds under the draft key                                  *)
(***************************************************************************)
\* localStorage.getItem: null for no item, else the text; the text
\* JSON.stringify wrote is kept as the value it writes
NoItem       == Null
JsonText(v)  == [t |-> "json", x |-> v]

\* the texts found under the key that saveDraft did not write
ForeignTexts == { Str(<< >>), Str(<< "{" >>), Str(<< "n", "u", "l", "l" >>), Str(<< "5" >>) }

\* JSON.stringify of a property value: NaN is written as null, and a property
\* that is undefined is left out, so it is undefined when read
Stringified(v) == IF v.t = "nan" THEN Null ELSE v

\* JSON.stringify({ schemaVersion, savedAt, currentStep, formData })
DraftText(formData, currentStepArg, schemaVersion, savedAt) ==
  JsonText([t |-> "draft",
            x |-> [schemaVersion |-> Stringified(schemaVersion),
                   savedAt       |-> savedAt,
                   currentStep   |-> Stringified(currentStepArg),
                   formData      |-> Stringified(formData)]])

\* JSON.parse(raw): the value, or a SyntaxError
JSONparse(raw) ==
  IF raw.t = "json" THEN raw.x
  ELSE IF raw.x = << "n", "u", "l", "l" >> THEN Null
  ELSE IF IsIntegerText(raw.x) THEN parseInt(raw.x)
  ELSE Thrown

\* saveDraft(formData, currentStep, schemaVersion): the item afterwards;
\* setItem may throw (quota, private browsing) and the item stays
saveDraft(formData, currentStepArg, schemaVersion, savedAt, setItemThrows, item) ==
  IF setItemThrows THEN item
  ELSE DraftText(formData, currentStepArg, schemaVersion, savedAt)

\* clearDraft(): the item afterwards
clearDraft(item) == NoItem

\* loadDraft once JSON.parse returned draft
loadParsed(draft, currentSchemaVersion, item) ==
  IF draft.t # "draft" THEN [r |-> Null, item |-> item]
  ELSE IF ~Truthy(draft.x.formData) \/ draft.x.formData.t \notin {"obj", "arr"}
       THEN [r |-> Null, item |-> item]
  ELSE IF ~IsNumber(draft.x.currentStep) THEN [r |-> Null, item |-> item]
  ELSE IF draft.x.schemaVersion # currentSchemaVersion
       THEN [r |-> Null, item |-> clearDraft(item)]
  ELSE [r |-> draft, item |-> item]

\* loadDraft(currentSchemaVersion): what it returns and the item afterwards
loadDraft(currentSchemaVersion, item) ==
  IF item = NoItem \/ item = Str(<< >>) THEN [r |-> Null, item |-> item]
  ELSE IF JSONparse(item) = Thrown THEN [r |-> Null, item |-> clearDraft(item)]
  ELSE loadParsed(JSONparse(item), currentSchemaVersion, item)

SchemaVersions == { Str(<< "1" >>), Str(<< "2" >>) }
FormDatas      == { Obj(<< >>), Obj(<< << << "a" >>, Num(1) >> >>), Null, Undefined }
DraftSteps     == { Num(0), Num(2), NaN, Undefined }

DraftCall(op, args, returned) == [t |-> op, x |-> << args, returned >>]

InitDrafts ==
  /\ pc = "start"
  /\ call = "drafts"
  /\ storage \in {NoItem} \cup ForeignTexts
  /\ lastSaved = Undefined
  /\ savedCount = 0
  /\ lastCall = Undefined
  /\ shared = NoSharedProps
  /\ data = Undefined /\ config = NoConfig /\ statement = Undefined /\ decoded = Undefined
  /\ EngineIdle /\ LoadIdle /\ AppIdle /\ PairsIdle /\ StepIdle

DraftSaved(item) ==
  /\ storage' = item
  /\ lastSaved' = IF item = storage THEN lastSaved ELSE item.x
  /\ savedCount' = IF item = storage THEN savedCount ELSE savedCount + 1

SaveDraft ==
  /\ call = "drafts"
  /\ savedCount < MaxSaves
  /\ \E formData \in FormDatas, step \in DraftSteps, schemaVersion \in SchemaVersions,
        setItemThrows \in BOOLEAN :
       /\ DraftSaved(saveDraft(formData, step, schemaVersion, savedCount + 1, setItemThrows, storage))
       /\ lastCall' = DraftCall("saveDraft", << formData, step, schemaVersion >>, Undefined)
  /\ UNCHANGED << call, data, config, statement, decoded, shared, pc >>
  /\ UNCHANGED << engineVars, loadVars, appVars, pairVars, stepVars >>

DraftLoaded(schemaVersion, l) ==
  /\ storage' = l.item
  /\ lastCall' = DraftCall("loadDraft", schemaVersion, l.r)

LoadDraft ==
  /\ call = "drafts"
  /\ \E schemaVersion \in SchemaVersions :
       DraftLoaded(schemaVersion, loadDraft(schemaVersion, storage))
  /\ UNCHANGED << call, data, config, statement, decoded, shared, pc, lastSaved, savedCount >>
  /\ UNCHANGED << engineVars, loadVars, appVars, pairVars, stepVars >>

ClearDraft ==
  /\ call = "drafts"
  /\ storage' = clearDraft(storage)
  /\ lastCall' = DraftCall("clearDraft", Undefined, Undefined)
  /\ UNCHANGED << call, data, config, statement, decoded, shared, pc, lastSaved, savedCount >>
  /\ UNCHANGED << engineVars, loadVars, appVars, pairVars, stepVars >>

NextDrafts == SaveDraft \/ LoadDraft \/ ClearDraft

SpecDrafts == InitDrafts /\ [][NextDrafts]_vars

(***************************************************************************)
(* Vocabulary of the properties                                            *)
(***************************************************************************)
\* the keys decode and encode reserve for the version and the origin
MetaKeys == { << "v" >>, << "o" >>, VersionKey, OriginKey }

\* o[k], undefined when o has no own property k
FieldOf(o, k) == IF HasOwn(o.x, k) THEN OwnGet(o.x, k) ELSE Undefined

\* the caller encoded the mapping {key: value} for a key that is not reserved
EncodedOneField ==
  /\ call = "encode"
  /\ Len(data.x) = 1
  /\ data.x[1][1] \notin MetaKeys
TheKey   == data.x[1][1]
TheValue == data.x[1][2]

\* the segments of the statement, and the last of them
SegmentsOf(str) == Split(str, ";")
LastSegment == SegmentsOf(statement.x)[Len(SegmentsOf(statement.x))]

\* the integer a text matching /^-?\d+$/ denotes
IntegerOf(str) ==
  IF str[1] = "-" THEN 0 - DigitsValue(Tail(str)) ELSE DigitsValue(str)

\* a string (read as text: no unpaired surrogate), a number or a boolean
IsScalar(v) == v.t \in {"num", "frac", "bool"} \/ (v.t = "str" /\ WellFormed(v.x))
IsLeaf(v)   == IsScalar(v) \/ (v.t = "arr" /\ \A i \in 1..Len(v.x) : IsScalar(v.x[i]))
NoDelimiter(k) == \A i \in 1..Len(k) : k[i] \notin {".", ":", ";"}

\* a mapping with scalar or array-of-scalar leaves and keys free of . : ;
RECURSIVE IsPlainMapping(_)
IsPlainMapping(d) ==
  /\ d.t = "obj"
  /\ \A i \in 1..Len(d.x) :
       /\ NoDelimiter(d.x[i][1])
       /\ IsLeaf(d.x[i][2]) \/ IsPlainMapping(d.x[i][2])

\* a value up to the two documented ambiguities: a field holding '' is dropped,
\* a string matching /^-?\d+$/ is read as its integer
RECURSIVE Canon(_)
Canon(v) ==
  IF v.t = "str" /\ IsIntegerText(v.x) THEN Num(IntegerOf(v.x))
  ELSE IF v.t = "arr" THEN Arr([i \in 1..Len(v.x) |-> Canon(v.x[i])])
  ELSE IF v.t = "obj"
       THEN LET kept == SelectSeq(v.x, LAMBDA kv : kv[2] # Str(<< >>))
            IN  Obj([i \in 1..Len(kept) |-> << kept[i][1], Canon(kept[i][2]) >>])
  ELSE v

\* equality of values, the order of an object's properties left aside
RECURSIVE SameValue(_, _)
SameValue(a, b) ==
  IF a.t = "obj" /\ b.t = "obj"
  THEN /\ {a.x[i][1] : i \in 1..Len(a.x)} = {b.x[i][1] : i \in 1..Len(b.x)}
       /\ \A i \in 1..Len(a.x) : SameValue(a.x[i][2], OwnGet(b.x, a.x[i][1]))
  ELSE a.t = b.t /\ a = b

\* d with _v = 1 and _o = "co" added
WithMeta(d) ==
  Obj(ObjSet(ObjSet(d.x, VersionKey, Num(1)), OriginKey, Str(<< "c", "o" >>)))

(***************************************************************************)
(* C1  Round-trip: for every mapping d whose leaves are strings, numbers,  *)
(* booleans or arrays of those (nested mappings allowed) and whose keys    *)
(* hold no '.', ':' or ';', decode(encode(d, 1, "co")) equals d with       *)
(* _v = 1 and _o = "co" added, except that an empty-string leaf and an     *)
(* absent field are not told apart and a string matching ^-?\d+$ comes     *)
(* back as an integer.                                                     *)
(***************************************************************************)
C1_RoundTrip ==
  (pc = "decoded" /\ call = "encode" /\ config = NoConfig /\ IsPlainMapping(data))
    => SameValue(Canon(decoded), Canon(WithMeta(data)))

(***************************************************************************)
(* C2  decode returns null for every malformed input: the empty string, a  *)
(* non-empty string none of whose segments holds a ':', and a statement    *)
(* carrying a corrupt base64 value.                                        *)
(***************************************************************************)
HasPair(str) == \E i \in 1..Len(SegmentsOf(str)) : IndexOf(SegmentsOf(str)[i], ":") > 0

\* a '~' value whose payload atob or decodeURIComponent rejects
IsCorruptValue(value) ==
  /\ Len(value) > 0
  /\ value[1] = "~"
  /\ LET padded == ReplaceAll(ReplaceAll(Tail(value), "-", "+"), "_", "/")
     IN  ~(AtobAccepts(padded) /\ Utf8Valid(Atob(padded)))

HasCorruptValue(str) ==
  \E i \in 1..Len(SegmentsOf(str)) :
    LET seg == SegmentsOf(str)[i]
        c   == IndexOf(seg, ":")
    IN  /\ c > 0
        /\ SubSeq(seg, 1, c - 1) \notin { << "v" >>, << "o" >> }
        /\ IsCorruptValue(SubSeq(seg, c + 1, Len(seg)))

IsMalformed(str) == str = << >> \/ ~HasPair(str) \/ HasCorruptValue(str)

C2_MalformedIsNull ==
  (pc = "decoded" /\ call = "decode" /\ statement.t = "str" /\ IsMalformed(statement.x))
    => decoded = Null

(***************************************************************************)
(* C3  decode is total: whatever it is handed, a string (colliding paths,  *)
(* empty keys, undecodable '~' payloads included) or no string at all, the *)
(* call completes with null or a mapping; no exception reaches the caller. *)
(***************************************************************************)
C3_DecodeTotal == pc = "decoded" => decoded.t \in {"null", "obj"}

\* unflatten threw inside decode, and decode returned null
C3_Witness ==
  /\ pc = "decoded"
  /\ call = "decode"
  /\ statement.t = "str"
  /\ unflatten(decodePairs(Split(statement.x, ";")), NoSharedProps).st = "throw"
  /\ decoded = Null

(***************************************************************************)
(* C4  Every non-null result of decode carries a defined version and a     *)
(* defined origin: for every string s, decode(s) is null or decode(s)._v   *)
(* and decode(s)._o are both not undefined.                                *)
(***************************************************************************)
C4_VersionAndOrigin ==
  (pc = "decoded" /\ statement.t = "str" /\ decoded # Null)
    => /\ FieldOf(decoded, VersionKey) # Undefined
       /\ FieldOf(decoded, OriginKey) # Undefined

(***************************************************************************)
(* C5  Metadata round-trip: for every mapping d, version ver and origin    *)
(* (origins that encode escapes included), decode(encode(d, ver, origin))  *)
(* has _v = ver and _o = origin, whatever keys d holds.                    *)
(***************************************************************************)
C5_MetadataRoundTrip ==
  (pc = "decoded" /\ call = "encode")
    => /\ decoded.t = "obj"
       /\ FieldOf(decoded, VersionKey) = Coalesce(config.formatVersion, Num(1))
       /\ FieldOf(decoded, OriginKey) = Coalesce(config.origin, Str(<< "c", "o" >>))

(***************************************************************************)
(* C6  In every string encode produces, no value part of a key:value       *)
(* segment holds a raw ';' or ':', whatever the leaf is (null, string,     *)
(* number, boolean, array, nested array): splitting at ';' yields exactly  *)
(* one segment per pair, and each segment holds exactly one ':'.           *)
(***************************************************************************)
C6_NoRawDelimiters ==
  (pc # "start" /\ call = "encode")
    => LET segs == SegmentsOf(statement.x)
           kept == SelectSeq(flatten(data.x, << >>),
                             LAMBDA kv : kv[1] # VersionKey /\ kv[1] # OriginKey)
       IN  /\ Len(segs) = 2 + Len(kept)
           /\ \A i \in 1..Len(segs) :
                LET c == IndexOf(segs[i], ":")
                IN  /\ c > 0
                    /\ IndexOf(SubSeq(segs[i], c + 1, Len(segs[i])), ":") = 0

\* a string leaf made of the two delimiters was encoded
C6_Witness ==
  /\ pc = "encoded"
  /\ EncodedOneField
  /\ TheValue = Str(<< ";", ":" >>)

(***************************************************************************)
(* C7  Escaping round-trip, as claimed: for every non-empty string with a  *)
(* character outside [A-Za-z0-9_-], encode writes a '~'-prefixed value and *)
(* decode reproduces the string exactly.                                   *)
(***************************************************************************)
NeedsEscaping(v) == v.t = "str" /\ v.x # << >> /\ ~SAFE_VALUE(v.x)

EscapedAndRestored ==
  /\ Len(LastSegment) > Len(TheKey) + 1
  /\ SubSeq(LastSegment, 1, Len(TheKey) + 2) = TheKey \o << ":", "~" >>
  /\ decoded.t = "obj"
  /\ FieldOf(decoded, TheKey) = TheValue

C7_EscapingEveryString ==
  (pc = "decoded" /\ EncodedOneField /\ NeedsEscaping(TheValue)) => EscapedAndRestored

\* C7 as amended: the same for every such string without an unpaired surrogate
C7_EscapingWellFormed ==
  (pc = "decoded" /\ EncodedOneField /\ NeedsEscaping(TheValue) /\ WellFormed(TheValue.x))
    => EscapedAndRestored

\* a string of non-ASCII text and a delimiter went through encode and decode
C7_Witness ==
  /\ pc = "decoded"
  /\ EncodedOneField
  /\ TheValue = Str(<< "U+20AC", "1", "," >>)
  /\ FieldOf(decoded, TheKey) = TheValue

IsTokenOrEscaped(v) ==
  v.t = "str" /\ v.x # << >> /\ WellFormed(v.x) /\ ~IsIntegerText(v.x)

C9_ArrayRoundTrip ==
  (/\ pc = "decoded"
   /\ EncodedOneField
   /\ TheValue.t = "arr"
   /\ \A i \in 1..Len(TheValue.x) : IsTokenOrEscaped(TheValue.x[i]))
    => /\ LastSegment = TheKey \o << ":" >>
                          \o Join([i \in 1..Len(TheValue.x) |-> encodeValue(TheValue.x[i])], ",")
       /\ decoded.t = "obj"
       /\ FieldOf(decoded, TheKey) = TheValue

(***************************************************************************)
(* C10  Unknown-field preservation: decode drops no pair because of its    *)
(* key name; when the keys of a statement other than v and o are distinct  *)
(* identifiers, each of them is in the result with its decoded value.      *)
(***************************************************************************)
IsIdentifier(k) ==
  /\ Len(k) > 0
  /\ ~IsDigit(k[1])
  /\ \A i \in 1..Len(k) : IsLower(k[i]) \/ IsUpper(k[i]) \/ IsDigit(k[i]) \/ k[i] = "_"

KeyOf(seg)   == SubSeq(seg, 1, IndexOf(seg, ":") - 1)
ValueOf(seg) == SubSeq(seg, IndexOf(seg, ":") + 1, Len(seg))

\* every segment is a pair, the keys are identifiers other than _v and _o,
\* and no key occurs twice
HasDistinctIdentifiers(str) ==
  LET segs == SegmentsOf(str)
  IN  /\ \A i \in 1..Len(segs) :
           /\ IndexOf(segs[i], ":") > 0
           /\ IsIdentifier(KeyOf(segs[i]))
           /\ KeyOf(segs[i]) \notin {VersionKey, OriginKey}
      /\ \A i, j \in 1..Len(segs) : KeyOf(segs[i]) = KeyOf(segs[j]) => i = j

C10_UnknownFieldsKept ==
  (/\ pc = "decoded"
   /\ call = "decode"
   /\ statement.t = "str"
   /\ statement.x # << >>
   /\ HasDistinctIdentifiers(statement.x))
    => /\ decoded.t = "obj"
       /\ \A i \in 1..Len(SegmentsOf(statement.x)) :
            LET seg == SegmentsOf(statement.x)[i]
            IN  KeyOf(seg) \notin { << "v" >>, << "o" >> }
                  => FieldOf(decoded, KeyOf(seg)) = decodeValue(ValueOf(seg))

(***************************************************************************)
(* C11  decode is order-independent: when the segments of a statement are  *)
(* pairs whose keys are pairwise distinct and do not collide (no key's     *)
(* path is another's, or the beginning of another's), every permutation of *)
(* the segments, v and o at any position, decodes to an equal mapping.     *)
(***************************************************************************)
\* the path in the result a segment's key stands for
ResultPath(seg) ==
  IF KeyOf(seg) = << "v" >> THEN << VersionKey >>
  ELSE IF KeyOf(seg) = << "o" >> THEN << OriginKey >>
  ELSE Split(KeyOf(seg), ".")

IsPathPrefix(p, q) == Len(p) <= Len(q) /\ SubSeq(q, 1, Len(p)) = p

HasNonCollidingKeys(str) ==
  LET segs == SegmentsOf(str)
  IN  /\ \A i \in 1..Len(segs) : IndexOf(segs[i], ":") > 1
      /\ \A i, j \in 1..Len(segs) :
           i # j => ~IsPathPrefix(ResultPath(segs[i]), ResultPath(segs[j]))

Reorderings(seq) ==
  { [i \in 1..Len(seq) |-> seq[f[i]]] :
      f \in {g \in [1..Len(seq) -> 1..Len(seq)] : \A i, j \in 1..Len(seq) : g[i] = g[j] => i = j} }

C11_OrderIndependent ==
  (/\ pc = "decoded"
   /\ call = "decode"
   /\ statement.t = "str"
   /\ statement.x # << >>
   /\ HasNonCollidingKeys(statement.x))
    => \A p \in Reorderings(SegmentsOf(statement.x)) :
         SameValue(decode(Str(Join(p, ";")), NoSharedProps).r, decoded)

(***************************************************************************)
(* C19  encode and decode have no effect on shared state: no call changes  *)
(* anything outside the value it returns, also when the path of a key      *)
(* names properties every mapping inherits (__proto__, constructor).       *)
(***************************************************************************)
C19_NoSharedEffect == [][shared' = shared]_vars

(***************************************************************************)
(* Vocabulary of the properties of the rule engine                         *)
(***************************************************************************)
\* the tokens of a condition, EOF left out
TokensOf(text) ==
  LET tokens == tokenize(text).tokens IN SubSeq(tokens, 1, Len(tokens) - 1)

IsConnective(token) == token.type \in {"AND", "OR"}

\* the runs of tokens between the connectives, and the connectives
RECURSIVE TermsOf(_)
TermsOf(tokens) ==
  IF \E i \in 1..Len(tokens) : IsConnective(tokens[i])
  THEN LET i == CHOOSE k \in 1..Len(tokens) :
                  IsConnective(tokens[k]) /\ \A m \in 1..(k - 1) : ~IsConnective(tokens[m])
       IN  << SubSeq(tokens, 1, i - 1) >> \o TermsOf(SubSeq(tokens, i + 1, Len(tokens)))
  ELSE << tokens >>

ConnectivesOf(tokens) == SelectSeq(tokens, IsConnective)

\* a run of tokens that is one term of the grammar: NOT? factor
IsTerm(tokens) ==
  /\ tokens # << >>
  /\ LET term == parseTerm(tokens \o << TOKEN("EOF", Undefined) >>, 1)
     IN  term.st = "ok" /\ term.pos = Len(tokens) + 1

\* a chain of terms joined by AND / OR, without parentheses
IsPlainChain(text) ==
  /\ tokenize(text).st = "ok"
  /\ LET tokens == TokensOf(text)
         terms  == TermsOf(tokens)
     IN  /\ \A i \in 1..Len(tokens) : tokens[i].type \notin {"LPAREN", "RPAREN"}
         /\ \A i \in 1..Len(terms) : IsTerm(terms[i])

\* the value of a term on its own in the context of the last call
TermValue(tokens) ==
  evaluate(parseTerm(tokens \o << TOKEN("EOF", Undefined) >>, 1).ast, ctx, shared)

\* ((t1 op1 t2) op2 t3) ... with && and || as the language defines them
RECURSIVE LeftFold(_, _, _)
LeftFold(acc, terms, connectives) ==
  IF Len(terms) = 0 THEN acc
  ELSE LeftFold(IF connectives[1].type = "AND"
                THEN (IF Truthy(acc) THEN TermValue(terms[1]) ELSE acc)
                ELSE (IF Truthy(acc) THEN acc ELSE TermValue(terms[1])),
                Tail(terms), Tail(connectives))

\* the tokens of the text are exactly one expression of the grammar
IsCompleteExpression(text) ==
  /\ tokenize(text).st = "ok"
  /\ LET tokens == tokenize(text).tokens
         parsed == parseExpr(tokens, 1)
     IN  parsed.st = "ok" /\ tokens[parsed.pos].type = "EOF"

\* ctx[name] when the context defines name, or else the default
DefinedOr(name, default) == IF HasOwn(ctx.x, name) THEN OwnGet(ctx.x, name) ELSE default

(***************************************************************************)
(* C12  AND and OR have equal precedence and fold left to right: for a     *)
(* chain t1 op1 t2 op2 t3 ... without parentheses the evaluator returns    *)
(* the value of ((t1 op1 t2) op2 t3) ...; so 'a AND b OR c' is             *)
(* (a AND b) OR c and 'a OR b AND c' is (a OR b) AND c for every a, b, c.  *)
(***************************************************************************)
C12_LeftToRightFold ==
  (pc = "evaluated" /\ IsPlainChain(rule.x))
    => LET tokens == TokensOf(rule.x)
           terms  == TermsOf(tokens)
       IN  verdict = LeftFold(TermValue(terms[1]), Tail(terms), ConnectivesOf(tokens))

\* 'a OR b AND c' with a true, b and c false was evaluated to false, where
\* AND binding tighter gives true
C12_Witness ==
  /\ pc = "evaluated"
  /\ rule = Str(<< "a", " ", "O", "R", " ", "b", " ", "A", "N", "D", " ", "c" >>)
  /\ ctx = Obj(<< << << "a" >>, Bool(TRUE) >>, << << "b" >>, Bool(FALSE) >>,
                  << << "c" >>, Bool(FALSE) >> >>)
  /\ verdict = Bool(FALSE)

(***************************************************************************)
(* C13  Evaluation never throws and applies lenient defaults: an           *)
(* identifier the context does not define is false as a boolean factor of  *)
(* its own and 0 as the left or right operand of a comparison.             *)
(***************************************************************************)
C13_LenientDefaults ==
  pc = "evaluated"
    => /\ verdict.t # "thrown"
       /\ (evaluator.x.type = "VAR" /\ ~HasOwn(ctx.x, evaluator.x.name))
            => verdict = Bool(FALSE)
       /\ evaluator.x.type = "COMPARE"
            => verdict = Compare(evaluator.x.op,
                                 DefinedOr(evaluator.x.left, Num(0)),
                                 IF "type" \in DOMAIN evaluator.x.right
                                 THEN DefinedOr(evaluator.x.right.name, Num(0))
                                 ELSE evaluator.x.right)

(***************************************************************************)
(* C14  The evaluator is a function from context to boolean: for every     *)
(* condition that compiles and every context of numbers and booleans the   *)
(* value returned is true or false, never a number or any other value.     *)
(***************************************************************************)
C14_BooleanResult == pc = "evaluated" => verdict.t = "bool"

(***************************************************************************)
(* C15  compile fails for every malformed rule: when the tokens are not    *)
(* exactly one complete expression of the grammar (dangling comparator,    *)
(* missing closing parenthesis, unexpected token, tokens left over after   *)
(* a complete expression) compile throws and returns no evaluator.         *)
(***************************************************************************)
C15_MalformedRejected ==
  (call = "rules" /\ pc # "start" /\ ~IsCompleteExpression(rule.x))
    => evaluator = Thrown

(***************************************************************************)
(* C18  A compiled evaluator is pure and reusable: whatever calls came     *)
(* before, a call returns what the condition and the context of that call  *)
(* determine, and leaves the AST and the context as they were.             *)
(***************************************************************************)
C18_PureEvaluator ==
  [][pc' = "evaluated"
       => /\ verdict' = evaluate(evaluator.x, ctx', NoSharedProps)
          /\ evaluator' = evaluator]_vars

(***************************************************************************)
(* Vocabulary of the properties of the configuration and the page          *)
(***************************************************************************)
\* the indexes of the rules whose evaluator returns a true value on context
Matching(rules, context, env) ==
  {i \in 1..Len(rules) : Truthy(evaluate(rules[i].evaluator.x, context, env))}

\* the outcome of the rule of least index among matches, or the default
OutcomeOfFirst(rules, matches) ==
  IF matches = {} THEN DefaultOutcome
  ELSE Outcome(rules[CHOOSE i \in matches : \A j \in matches : i <= j].level,
               rules[CHOOSE i \in matches : \A j \in matches : i <= j].color,
               rules[CHOOSE i \in matches : \A j \in matches : i <= j].label)

\* a rule validateConfig refuses
IsBadRule(r) == ~Truthy(r.condition) \/ compile(r.condition).t # "evaluator"

\* the messages of the two Errors of the loop over config.rules
RuleMessages == {"Rule missing condition", "Invalid rule condition"}

\* the keys, the meta, the fields and the computed values of a configuration
\* are in order
IsValidBeforeRules(c) ==
  /\ c.absent \subseteq {"scoring"}
  /\ \A k \in DOMAIN c.meta : Truthy(c.meta[k])
  /\ \A i \in 1..Len(c.fields) :
       /\ c.fields[i][2].type \in VALID_FIELD_TYPES
       /\ c.fields[i][2].type \in {"enum", "flags"} => c.fields[i][2].values
       /\ c.fields[i][2].category \in c.categories \cup {""}
  /\ "scoring" \in c.absent
       \/ \A i \in 1..Len(c.computed) : c.computed[i][2].type \in VALID_COMPUTED_TYPES

(***************************************************************************)
(* C16  First match wins: assess returns the level, color and label of the *)
(* first rule, in declaration order, whose evaluator returns a true value  *)
(* on the computed context, whatever later rules match; when no rule       *)
(* matches, or the statement is null, it returns the default outcome.      *)
(***************************************************************************)
C16_FirstMatchWins ==
  pc = "assessed" =>
    outcome = IF decoded = Null THEN DefaultOutcome
              ELSE OutcomeOfFirst(loaded.compiledRules,
                                  Matching(loaded.compiledRules,
                                           computeContext(decoded, loaded.x, shared), shared))

\* two rules of different levels both match the statement assessed
C16_Witness ==
  /\ pc = "assessed"
  /\ decoded # Null
  /\ Len(loaded.compiledRules) = 2
  /\ loaded.compiledRules[1].level # loaded.compiledRules[2].level
  /\ Matching(loaded.compiledRules, computeContext(decoded, loaded.x, shared), shared) = {1, 2}

(***************************************************************************)
(* C17  Loading fails fast: when the file is otherwise in order and some   *)
(* rule has no condition or one compile rejects, validateConfig throws its *)
(* Error for the rules and loadConfig returns no configuration and no      *)
(* compiled rule; a configuration is returned only when every check of     *)
(* validateConfig passed, with one evaluator per rule in the order of      *)
(* config.rules.  loadConfigSync of the command line does the same.        *)
(***************************************************************************)
C17_FailFast ==
  (call \in {"app", "assess"} /\ loaded # Undefined /\ response = "ok") =>
    /\ (IsValidBeforeRules(configFile) /\ \E i \in 1..Len(configFile.rules) : IsBadRule(configFile.rules[i]))
         => loaded.t = "error" /\ loaded.x \in RuleMessages
    /\ loaded.t = "error" => "compiledRules" \notin DOMAIN loaded
    /\ loaded.t = "config"
         => /\ IsValidBeforeRules(configFile)
            /\ loaded.x = configFile
            /\ Len(loaded.compiledRules) = Len(configFile.rules)
            /\ \A i \in 1..Len(configFile.rules) :
                 /\ ~IsBadRule(configFile.rules[i])
                 /\ loaded.compiledRules[i].condition = configFile.rules[i].condition
                 /\ loaded.compiledRules[i].level = configFile.rules[i].level
                 /\ loaded.compiledRules[i].evaluator = compile(configFile.rules[i].condition)

\* a file whose first rule compiles and whose second does not was loaded
C17_Witness ==
  /\ call = "app" /\ pc # "loading" /\ response = "ok"
  /\ IsValidBeforeRules(configFile)
  /\ Len(configFile.rules) = 2
  /\ ~IsBadRule(configFile.rules[1])
  /\ IsBadRule(configFile.rules[2])
  /\ loaded.t = "error"

(***************************************************************************)
(* C20  The page refuses to start on a bad configuration: unless           *)
(* loadConfig resolved, route is never called, the hashchange listener is  *)
(* never registered and #app shows nothing but the error notice; once      *)
(* init has caught the rejection the notice is shown.                      *)
(***************************************************************************)
C20_RefusesToStart ==
  call = "app" =>
    /\ loaded.t # "config"
         => /\ ~page.routed
            /\ ~page.hashchange
            /\ ~page.keydown
            /\ page.app \in {"empty", "notice"}
    /\ pc = "failed" => page.app = "notice"
    /\ pc \in {"loading", "settled"} => page = PageAtStart

\* a rule of the file was refused, init showed the notice, and the hash has
\* changed since
C20_Witness ==
  /\ call = "app" /\ pc = "failed"
  /\ loaded = Failure("Invalid rule condition")
  /\ page.app = "notice"
  /\ parseUrl(statement.x) # Null

(***************************************************************************)
(* C21  Routing degrades on an invalid statement: whenever route runs, it  *)
(* renders the viewer only when the hash is not empty and decode returns a *)
(* mapping; when the hash is empty or decode returns null it renders the   *)
(* creation flow, and it does not throw.                                   *)
(***************************************************************************)
C21_RouteDegrades ==
  [][(call = "app" /\ page'.routed /\ (statement' # statement \/ pc' # pc \/ page' # page))
       => IF parseUrl(statement'.x) = Null
          THEN page'.app = "creator"
          ELSE IF decode(parseUrl(statement'.x), shared).r = Null
          THEN page'.app = "creator"
          ELSE page'.app = "viewer" /\ decode(parseUrl(statement'.x), shared).r.t = "obj"]_vars

\* route ran on a hash that is not empty and that decode refuses
C21_Witness ==
  /\ call = "app" /\ page.routed
  /\ parseUrl(statement.x) # Null
  /\ decode(parseUrl(statement.x), NoSharedProps).r = Null
  /\ page.app = "creator"

(***************************************************************************)
(* Vocabulary of the properties of colliding paths and of flatten          *)
(***************************************************************************)
\* the value a path leads to in a mapping, undefined when it leads nowhere
RECURSIVE PathGet(_, _)
PathGet(v, path) ==
  IF Len(path) = 0 THEN v
  ELSE IF v.t # "obj" THEN Undefined
  ELSE PathGet(FieldOf(v, path[1]), Tail(path))

\* one path is the beginning of the other, and they differ
Collide(p, q) == p # q /\ (IsPathPrefix(p, q) \/ IsPathPrefix(q, p))

\* every segment is a pair with a key and a value decodeValue accepts, and
\* the path of the last pair collides with the path of an earlier pair
EndsWithCollision(str) ==
  LET segs == SegmentsOf(str)
  IN  /\ Len(segs) >= 2
      /\ \A i \in 1..Len(segs) : IndexOf(segs[i], ":") > 1
      /\ ~HasCorruptValue(str)
      /\ \E i \in 1..(Len(segs) - 1) : Collide(ResultPath(segs[i]), ResultPath(segs[Len(segs)]))

(***************************************************************************)
(* C22  Path collision is last-write-wins: when the path of a pair         *)
(* collides with a value an earlier pair set ('a' after 'a.b', or 'a.b'    *)
(* after 'a'), the later pair overwrites the earlier structure and decode  *)
(* returns a mapping that holds the later pair's value at its path.        *)
(***************************************************************************)
C22_LastWriteWins ==
  (/\ pc = "decoded"
   /\ call = "decode"
   /\ statement.t = "str"
   /\ EndsWithCollision(statement.x))
    => /\ decoded.t = "obj"
       /\ PathGet(decoded, ResultPath(LastSegment)) = decodeValue(ValueOf(LastSegment))

\* no path of the list is another's, or the beginning of another's
HasNoCollision(list) ==
  \A i, j \in 1..Len(list) :
    i # j => ~IsPathPrefix(Split(list[i][1], "."), Split(list[j][1], "."))

(***************************************************************************)
(* C23  flatten(unflatten(pairs)) equals pairs, same keys, same values,    *)
(* same order, for every list of pairs of a dotted path and a scalar or    *)
(* array value in which no path collides with another.                     *)
(***************************************************************************)
C23_FlattenUnflatten ==
  (call = "pairs" /\ pc = "flattened" /\ HasNoCollision(pairs)) => flattened = pairs

\* the value of a raw text that holds no comma
PartRule(raw) ==
  IF raw = << >> THEN Str(<< >>)
  ELSE IF raw[1] = "~" THEN Str(b64Decode(Tail(raw)))
  ELSE IF IsIntegerText(raw) THEN Num(IntegerOf(raw))
  ELSE Str(raw)

\* the value the fixed order gives a raw text: '' first, then the '~' prefix
\* on the whole text, then the split at the commas, then the parts' rule
ValueRule(raw) ==
  IF raw = << >> THEN Str(<< >>)
  ELSE IF raw[1] = "~" THEN Str(b64Decode(Tail(raw)))
  ELSE IF IndexOf(raw, ",") > 0
       THEN Arr([i \in 1..Len(Split(raw, ",")) |-> PartRule(Split(raw, ",")[i])])
  ELSE PartRule(raw)

\* the raw values of the statement's pairs, v and o left out
RawValues(str) ==
  { ValueOf(SegmentsOf(str)[i]) :
      i \in {k \in 1..Len(SegmentsOf(str)) :
               /\ IndexOf(SegmentsOf(str)[k], ":") > 0
               /\ KeyOf(SegmentsOf(str)[k]) \notin { << "v" >>, << "o" >> }} }

Occurrences(expr, two) == {i \in 1..(Len(expr) - 1) : SubSeq(expr, i, i + 1) = two}

\* the words of the text: its maximal runs of [a-zA-Z0-9_] that begin with a
\* letter or '_' outside a number
RECURSIVE WordsOf(_, _)
WordsOf(expr, i) ==
  IF i > Len(expr) THEN << >>
  ELSE IF IsDigit(expr[i]) THEN WordsOf(expr, i + Len(NumberRun(expr, i)))
  ELSE IF IsIdStart(expr[i])
       THEN << IdentifierRun(expr, i) >> \o WordsOf(expr, i + Len(IdentifierRun(expr, i)))
  ELSE WordsOf(expr, i + 1)

IsKeyword(word, keyword) == toUpperCase(word) = keyword

\* a spelling of the three keywords
Spellings ==
  [and : { << "A", "N", "D" >>, << "a", "n", "d" >>, << "A", "n", "d" >>, << "&", "&" >> },
   or  : { << "O", "R" >>, << "o", "r" >>, << "|", "|" >> },
   not : { << "N", "O", "T" >>, << "n", "o", "t" >>, << "n", "O", "t" >>, << "!" >> }]

Spelled(word, spelling) ==
  IF IsKeyword(word, << "A", "N", "D" >>) THEN spelling.and
  ELSE IF IsKeyword(word, << "O", "R" >>) THEN spelling.or
  ELSE IF IsKeyword(word, << "N", "O", "T" >>) THEN spelling.not
  ELSE word

\* the text with each keyword written in the given spelling
RECURSIVE Respelled(_, _, _)
Respelled(expr, i, spelling) ==
  IF i > Len(expr) THEN << >>
  ELSE IF IsDigit(expr[i])
       THEN NumberRun(expr, i) \o Respelled(expr, i + Len(NumberRun(expr, i)), spelling)
  ELSE IF IsIdStart(expr[i])
       THEN Spelled(IdentifierRun(expr, i), spelling)
              \o Respelled(expr, i + Len(IdentifierRun(expr, i)), spelling)
  ELSE << expr[i] >> \o Respelled(expr, i + 1, spelling)

CountOf(tokens, Test(_)) == Len(SelectSeq(tokens, Test))

(***************************************************************************)
(* C25  Tokenizer aliases and maximal munch: a two-character comparator is *)
(* one token wherever the text holds it ('>=' is never '>' and another     *)
(* token, '!=' never NOT); writing AND as '&&', OR as '||', NOT as '!' or  *)
(* the keywords in another letter case gives an evaluator that returns the *)
(* same on every context; true and false are literals in lower case only.  *)
(***************************************************************************)
C25_AliasesAndMunch ==
  (call = "rules" /\ pc # "start" /\ tokenize(rule.x).st = "ok") =>
    LET tokens == TokensOf(rule.x)
        words  == WordsOf(rule.x, 1)
    IN  /\ \A two \in { << ">", "=" >>, << "<", "=" >>, << "!", "=" >> } :
             CountOf(tokens, LAMBDA t : t.type = "COMPARATOR" /\ t.value = two)
               = Cardinality(Occurrences(rule.x, two))
        /\ CountOf(tokens, LAMBDA t : t.type = "NOT")
             = CountOf(words, LAMBDA w : IsKeyword(w, << "N", "O", "T" >>))
                 + Cardinality({i \in 1..Len(rule.x) :
                                  rule.x[i] = "!" /\ i \notin Occurrences(rule.x, << "!", "=" >>)})
        /\ CountOf(tokens, LAMBDA t : t.type = "BOOLEAN")
             = CountOf(words, LAMBDA w : w \in { << "t", "r", "u", "e" >>, << "f", "a", "l", "s", "e" >> })
        /\ (pc \in {"compiled", "rejected"} /\ ctx = Undefined /\ decoded = Undefined)
             => \A spelling \in Spellings :
                  compile(Str(Respelled(rule.x, 1, spelling))) = evaluator
        /\ pc = "evaluated"
             => \A spelling \in {s \in Spellings : s.and = << "&", "&" >> /\ s.not \in { << "!" >>, << "n", "O", "t" >> }} :
                  evaluate(compile(Str(Respelled(rule.x, 1, spelling))).x, ctx, shared) = verdict

\* a condition with keywords in mixed case and FALSE in upper case was
\* compiled and evaluated
C25_Witness ==
  /\ call = "rules" /\ pc = "evaluated"
  /\ rule = Str(<< "N", "o", "t", " ", "a", " ", "O", "r", " ", "F", "a", "l", "s", "e" >>)
  /\ evaluator.x.type = "OR"
  /\ evaluator.x.right.type = "VAR"

(***************************************************************************)
(* Vocabulary of the properties of NOT                                     *)
(***************************************************************************)
CountType(tokens, from, to, type) ==
  Cardinality({i \in from..to : tokens[i].type = type})

\* the last token of the factor that begins at pos: the parenthesis closing
\* the one at pos, the right operand of a comparison, or the token itself
FactorEnd(tokens, pos) ==
  IF tokens[pos].type = "LPAREN"
  THEN CHOOSE j \in pos..Len(tokens) :
         /\ CountType(tokens, pos, j, "LPAREN") = CountType(tokens, pos, j, "RPAREN")
         /\ \A m \in pos..(j - 1) :
              CountType(tokens, pos, m, "LPAREN") # CountType(tokens, pos, m, "RPAREN")
  ELSE IF pos < Len(tokens) /\ tokens[pos + 1].type = "COMPARATOR" THEN pos + 2
  ELSE pos

\* the value of an expression given by its tokens, in the context of the
\* last call
ExprValue(tokens) ==
  evaluate(parseExpr(tokens \o << TOKEN("EOF", Undefined) >>, 1).ast, ctx, shared)

\* the tokens with the NOT at k and the factor after it replaced by the
\* negation of the factor's value
NotReplaced(tokens, k) ==
  SubSeq(tokens, 1, k - 1)
    \o << TOKEN("BOOLEAN",
                Bool(~Truthy(ExprValue(SubSeq(tokens, k + 1, FactorEnd(tokens, k + 1)))))) >>
    \o SubSeq(tokens, FactorEnd(tokens, k + 1) + 1, Len(tokens))

HasNotNot(tokens) ==
  \E k \in 1..(Len(tokens) - 1) : tokens[k].type = "NOT" /\ tokens[k + 1].type = "NOT"

\* NOT negates the one factor after it, wherever it stands in a complete
\* expression
NotNegatesOneFactor ==
  (call = "rules" /\ pc = "evaluated" /\ IsCompleteExpression(rule.x))
    => \A k \in 1..Len(TokensOf(rule.x)) :
         TokensOf(rule.x)[k].type = "NOT"
           => verdict = ExprValue(NotReplaced(TokensOf(rule.x), k))

(***************************************************************************)
(* C26  NOT applies to exactly the one factor that follows it and binds    *)
(* tighter than AND and OR: 'NOT a AND b' is (NOT a) AND b, 'NOT x >= 1'   *)
(* is NOT (x >= 1), 'NOT (e)' negates the whole of e; and a rule where a   *)
(* NOT is directly followed by another NOT is rejected by compile.         *)
(***************************************************************************)
C26_NotBindsOneFactor ==
  /\ NotNegatesOneFactor
  /\ (call = "rules" /\ pc # "start" /\ tokenize(rule.x).st = "ok"
        /\ HasNotNot(TokensOf(rule.x)))
       => evaluator = Thrown

(***************************************************************************)
(* Vocabulary of the property of re-encoding                               *)
(***************************************************************************)
\* decode(encode(x, config)) in the program as the first decode left it;
\* encode throws on a value that has no entries
Reencoded(x, cfg) ==
  IF x.t # "obj" THEN Thrown ELSE decode(Str(encode(x, cfg)), shared).r

(***************************************************************************)
(* C27  Re-encoding is stable after one round trip: encode ignores the     *)
(* top-level keys _v and _o of its input and stamps its own version and    *)
(* origin, so for every mapping d that encode accepts and                  *)
(* x = decode(encode(d)), decode(encode(x)) equals x.                      *)
(***************************************************************************)
C27_ReencodingStable ==
  (call = "encode" /\ pc = "decoded") => Reencoded(decoded, config) = decoded

(***************************************************************************)
(* Vocabulary of the properties of the stepper                             *)
(***************************************************************************)
\* a step of the stepper that is a call of goToStep, next or prev
IsStepCall == call = "stepper" /\ lastCall'.t = "call" /\ Len(timers') >= Len(timers)

\* the target is out of range, is the step the stepper is at, or one of the
\* two step elements the call looks up is missing
Refused(target) ==
  \/ target \notin 0..(Len(steps) - 1)
  \/ target = currentStep
  \/ steps[target + 1] \notin present
  \/ steps[currentStep + 1] \notin present

(***************************************************************************)
(* C28  Stepper position: after any sequence of next, prev and goToStep(i) *)
(* with any integer i, 0 <= currentStep < steps.length; a call whose       *)
(* target is out of range, is the current step, or whose step element is   *)
(* missing leaves currentStep as it is and calls no onStepChange; any      *)
(* other call makes currentStep the target and calls onStepChange once     *)
(* with (target, previous step, direction).                                *)
(***************************************************************************)
C28_StepperPosition ==
  /\ [](call = "stepper" => currentStep \in 0..(Len(steps) - 1))
  /\ [][IsStepCall
          => LET op     == lastCall'.x[1]
                 target == lastCall'.x[2]
             IN  /\ op = "next" => target = currentStep + 1
                 /\ op = "prev" => target = currentStep - 1
                 /\ IF Refused(target)
                    THEN currentStep' = currentStep /\ notified' = notified
                    ELSE /\ currentStep' = target
                         /\ onStepChange
                              => notified' = Append(notified,
                                                    << target, currentStep,
                                                       IF target > currentStep THEN "forward"
                                                       ELSE "back" >>)]_vars

\* after a call that moved the stepper forward to the last step, a call with
\* the index one past the last step left it there
C28_Witness ==
  /\ call = "stepper"
  /\ Len(steps) = MaxSteps
  /\ lastCall = StepCall("goToStep", Len(steps))
  /\ currentStep = Len(steps) - 1
  /\ notified = << << Len(steps) - 1, 0, "forward" >> >>

(***************************************************************************)
(* C29  Stepper visibility converges under overlapping animations:         *)
(* starting with only step 0 visible, whatever calls of goToStep were      *)
(* made and whenever (several within the exit delay included), once every  *)
(* pending timer has fired the only step element with aria-hidden="false"  *)
(* is that of steps[currentStep].                                          *)
(***************************************************************************)
C29_VisibilityConverges ==
  (call = "stepper" /\ steps[1] \in present /\ timers = << >>)
    => visible = {steps[currentStep + 1]}

\* three calls went forward, forward and back to the first step, and all
\* their timers have fired
C29_Witness ==
  /\ call = "stepper"
  /\ timers = << >>
  /\ notified = << << 1, 0, "forward" >>, << 2, 1, "forward" >>, << 0, 2, "back" >> >>
  /\ visible = {steps[1]}

(***************************************************************************)
(* Vocabulary of the properties of the draft store                         *)
(***************************************************************************)
\* the stored text is a draft of another schema version, or is no JSON
StoredMismatch(item, ver) ==
  \/ item.t = "json" /\ item.x.t = "draft" /\ item.x.x.schemaVersion # ver
  \/ item.t = "str" /\ JSONparse(item) = Thrown

\* what loadDraft returned is null or the draft saved last, of the version
\* asked for and well formed
ReturnsNullOrLastSaved ==
  (call = "drafts" /\ lastCall.t = "loadDraft")
    => \/ lastCall.x[2] = Null
       \/ /\ lastCall.x[2] = lastSaved
          /\ lastSaved.x.schemaVersion = lastCall.x[1]
          /\ lastSaved.x.formData.t = "obj"
          /\ lastSaved.x.currentStep.t \in {"num", "frac"}

(***************************************************************************)
(* C30  The draft store never returns a stale or malformed draft: after    *)
(* any calls of saveDraft, loadDraft and clearDraft, loadDraft(ver)        *)
(* returns null or the draft saved last, whose schemaVersion is ver, whose *)
(* formData is an object and whose currentStep is a number; when the       *)
(* stored draft's schemaVersion differs from ver or the stored text is not *)
(* valid JSON, loadDraft returns null and removes the stored draft, so the *)
(* next loadDraft, with any version, returns null as well.                 *)
(***************************************************************************)
C30_DraftStore ==
  /\ []ReturnsNullOrLastSaved
  /\ [][(call = "drafts" /\ lastCall'.t = "loadDraft")
          => /\ StoredMismatch(storage, lastCall'.x[1])
                  => lastCall'.x[2] = Null /\ storage' = NoItem
             /\ (lastCall.t = "loadDraft" /\ lastCall.x[2] = Null)
                  => lastCall'.x[2] = Null]_vars
====
